---- MODULE Spec2Model ----
(***************************************************************************)
(* Model of PropertyParser (src/telegram_notion_bot.py): the line-oriented *)
(* listing parser parse_property_info and its helpers.                     *)
(*                                                                         *)
(* A string is a sequence of characters; a character is a one-element      *)
(* name: ASCII characters stand for themselves, a Hangul syllable is named *)
(* by its Revised Romanization with a capital initial ("Gwon" is U+AD8C,   *)
(* one-letter romanizations carry a trailing underscore: "I_" is U+C774),  *)
(* "sqm" is the square-metre sign U+33A1 and "ieung"/"tieut" are the jamo  *)
(* U+3147/U+314C.  A text is the sequence of its lines (text.split of the  *)
(* newline character).                                                     *)
(***************************************************************************)
EXTENDS Integers, Sequences, FiniteSets, TLC

(***************************************************************************)
(* Python's re module, as far as the parser uses it: a backtracking        *)
(* matcher that returns the first match in priority order.                 *)
(***************************************************************************)
Digit == {"0", "1", "2", "3", "4", "5", "6", "7", "8", "9"}
Space == {" ", "\t"}
\* [가-힣], as far as the model's alphabet goes
Hangul == {"Ga", "Gae", "Geo", "Geon", "Gye", "Go", "Gong", "Gwan",
           "Gyo", "Gu", "Gun", "Gwon", "Geun", "Geum", "Gi", "Gin",
           "Nam", "Nae", "Neun", "Neung", "Dal", "Dae", "De", "Do",
           "Dong", "Doem", "Rak", "Rae", "Ryeon", "Ryo", "Ri", "Rin",
           "Man", "Mae", "Me", "Myeon", "Mo", "Mu", "Mul", "Bak",
           "Ban", "Bang", "Baek", "Beop", "Byeol", "Bo", "Bok", "Bu",
           "Buk", "Bun", "Bul", "Bi", "Sa", "Sang", "Saeng", "Seo",
           "Seon", "Seol", "Seong", "Se", "So", "Su", "Suk", "Sun",
           "Si", "Sik", "Sil", "An", "Ap_", "Ae", "Yak", "Yang",
           "Eok", "Eop", "Eops", "Yeon", "Yeop_", "Wan", "Oe", "Yo",
           "Yong", "Won", "Wol", "Wi", "Yu", "Yuk", "Eun", "Eum",
           "Ui", "I_", "In", "Il", "Im", "Jang", "Jae", "Jeok",
           "Jeon", "Jeong", "Je", "Jong", "Ju", "Jung", "Jeung", "Ji",
           "Cha", "Chak", "Chang", "Cheo", "Cheon", "Chu", "Chuk", "Cheung",
           "Chi", "Ta", "Tae", "Tong", "Teuk", "Pan", "Pyeong", "Po",
           "Pil", "Ha", "Han", "Ham", "Hang", "Hyang", "Hyeop", "Hyeong",
           "Hwa", "Hwak", "Hwal"}

Cls(S) == [t |-> "cls", s |-> S]
NCls(S) == [t |-> "ncls", s |-> S]
Cat(a) == [t |-> "cat", a |-> a]
Alt(a) == [t |-> "alt", a |-> a]
Lit(w) == [t |-> "lit", w |-> w]
Rep(r, lo, hi) == [t |-> "rep", r |-> r, lo |-> lo, hi |-> hi, lazy |-> FALSE]
Lazy(r, lo, hi) == [t |-> "rep", r |-> r, lo |-> lo, hi |-> hi, lazy |-> TRUE]
Star(r) == Rep(r, 0, -1)
Plus(r) == Rep(r, 1, -1)
Opt(r) == Rep(r, 0, 1)
Grp(n, r) == [t |-> "grp", n |-> n, r |-> r]
La(r) == [t |-> "la", r |-> r]
Bol == [t |-> "bol"]
Eol == [t |-> "eol"]

Range(f) == {f[x] : x \in DOMAIN f}

NoMatch == <<>>
NoCaps == [n \in 1..4 |-> <<0, 0>>]
Dec(n) == IF n > 0 THEN n - 1 ELSE n

Min(S) == CHOOSE x \in S : \A y \in S : x <= y
Max(S) == CHOOSE x \in S : \A y \in S : x >= y

\* every position of s, the end included
All(s) == 1..(Len(s) + 1)
\* the end of the longest run of characters of class r that starts at i
RunEnd(r, s, i) ==
  Min({j \in i..Len(s) : (s[j] \in r.s) = (r.t = "ncls")} \cup {Len(s) + 1})
\* the furthest end of at most re.hi repetitions from i within a run
RepHi(re, i, run) == IF re.hi < 0 \/ i + re.hi > run THEN run ELSE i + re.hi
\* the ends in T that a repeated character class can reach from p
ClsEnds(re, s, p, T, hi) == {e \in T : p + re.lo <= e /\ e <= hi}
ClsReach(re, s, p, T) == ClsEnds(re, s, p, T, RepHi(re, p, RunEnd(re.r, s, p)))

\* the positions of s whose character is not of class r
Breaks(r, s) == {j \in 1..Len(s) : (s[j] \in r.s) = (r.t = "ncls")}
\* the start of the longest run of characters of the class that ends at e
RunStart(B, e) ==
  IF e = 1 \/ (e - 1) \in B THEN e ELSE Max({j \in B : j < e} \cup {0}) + 1
\* the first start from which at most re.hi repetitions within a run end at e
ClsFrom(re, e, run) == IF re.hi < 0 \/ e - re.hi < run THEN run ELSE e - re.hi

\* the positions from which a repeated character class ends in T
ClsPre(re, T, B) ==
  UNION {ClsFrom(re, e, RunStart(B, e))..(e - re.lo) : e \in T}

(* The backtracking search takes, at every choice, the first alternative in *)
(* priority order from which the rest of the expression can still match;    *)
(* whether it can depends on the position alone.  Pre(re, s, T) is the set  *)
(* of positions from which re matches up to a position of T, and Walk       *)
(* follows the first feasible alternative at every choice.                  *)
RECURSIVE Pre(_, _, _)
RECURSIVE PreCat(_, _, _, _, _)
\* a sequence is matched half by half: the first half up to where the
\* second can start
PreHalf(a, lo, hi, s, T) == IF T = {} THEN {} ELSE PreCat(a, lo, hi, s, T)
PreCat(a, lo, hi, s, T) ==
  IF T = {} \/ lo > hi THEN T
  ELSE IF lo = hi THEN Pre(a[lo], s, T)
  ELSE PreHalf(a, lo, (lo + hi) \div 2, s,
               PreCat(a, (lo + hi) \div 2 + 1, hi, s, T))
\* zero or more repetitions: the least set that holds T and its predecessors
RECURSIVE PreStar(_, _, _)
PreStarStep(r, s, X, Y) == IF Y = X THEN X ELSE PreStar(r, s, Y)
PreStar(r, s, X) == PreStarStep(r, s, X, X \cup Pre(r, s, X))
RECURSIVE PreRep(_, _, _, _, _)
PreRep(r, lo, hi, s, T) ==
  IF hi = 0 \/ T = {} THEN T
  ELSE IF lo > 0 THEN Pre(r, s, PreRep(r, lo - 1, Dec(hi), s, T))
  ELSE IF hi < 0 THEN PreStar(r, s, T)
  ELSE T \cup Pre(r, s, PreRep(r, 0, hi - 1, s, T))
Pre(re, s, T) ==
  CASE T = {} -> {}
    [] re.t = "cls" -> {p \in {e - 1 : e \in T} : p >= 1 /\ s[p] \in re.s}
    [] re.t = "ncls" -> {p \in {e - 1 : e \in T} : p >= 1 /\ s[p] \notin re.s}
    [] re.t = "lit" ->
         {p \in {e - Len(re.w) : e \in T} :
            p >= 1 /\ SubSeq(s, p, p + Len(re.w) - 1) = re.w}
    [] re.t = "cat" -> PreCat(re.a, 1, Len(re.a), s, T)
    [] re.t = "alt" -> UNION {Pre(re.a[j], s, T) : j \in DOMAIN re.a}
    [] re.t = "rep" /\ re.r.t \in {"cls", "ncls"} ->
         ClsPre(re, T, Breaks(re.r, s))
    [] re.t = "rep" -> PreRep(re.r, re.lo, re.hi, s, T)
    [] re.t = "grp" -> Pre(re.r, s, T)
    [] re.t = "la" -> T \cap Pre(re.r, s, All(s))
    [] re.t = "bol" -> T \cap {1}
    [] re.t = "eol" -> T \cap {Len(s) + 1}

\* a state of the walk is <<position, captures>>
RECURSIVE Walk(_, _, _, _)
RECURSIVE WalkCat(_, _, _, _, _, _)
WalkHalf(a, lo, hi, s, st, T) ==
  IF st = NoMatch \/ T = {} THEN NoMatch ELSE WalkCat(a, lo, hi, s, st, T)
WalkCat(a, lo, hi, s, st, T) ==
  IF lo > hi THEN st
  ELSE IF lo = hi THEN Walk(a[lo], s, st, T)
  ELSE WalkHalf(a, (lo + hi) \div 2 + 1, hi, s,
                WalkHalf(a, lo, (lo + hi) \div 2, s, st,
                         PreCat(a, (lo + hi) \div 2 + 1, hi, s, T)),
                T)
\* a repetition takes one more when it prefers to and can
RepMore(r, lo, hi, lazy, s, p, T, M) ==
  IF lazy THEN ~(lo = 0 /\ p \in T) ELSE hi # 0 /\ p \in Pre(r, s, M)
RECURSIVE WalkRep(_, _, _, _, _, _, _)
WalkRepIn(r, lo, hi, lazy, s, st, T, M) ==
  IF RepMore(r, lo, hi, lazy, s, st[1], T, M)
  THEN WalkRep(r, Dec(lo), Dec(hi), lazy, s, Walk(r, s, st, M), T)
  ELSE st
WalkRep(r, lo, hi, lazy, s, st, T) ==
  WalkRepIn(r, lo, hi, lazy, s, st, T, PreRep(r, Dec(lo), Dec(hi), s, T))
FirstAlt(a, s, p, T) == Min({j \in DOMAIN a : p \in Pre(a[j], s, T)})
ClsEnd(lazy, ends) == IF lazy THEN Min(ends) ELSE Max(ends)
Close(n, i, st) == <<st[1], [st[2] EXCEPT ![n] = <<i, st[1]>>]>>
\* from a state whose position is in Pre(re, s, T)
Walk(re, s, st, T) ==
  CASE re.t \in {"cls", "ncls"} -> <<st[1] + 1, st[2]>>
    [] re.t = "lit" -> <<st[1] + Len(re.w), st[2]>>
    [] re.t = "cat" -> WalkCat(re.a, 1, Len(re.a), s, st, T)
    [] re.t = "alt" -> Walk(re.a[FirstAlt(re.a, s, st[1], T)], s, st, T)
    [] re.t = "rep" /\ re.r.t \in {"cls", "ncls"} ->
         <<ClsEnd(re.lazy, ClsReach(re, s, st[1], T)), st[2]>>
    [] re.t = "rep" -> WalkRep(re.r, re.lo, re.hi, re.lazy, s, st, T)
    [] re.t = "grp" -> Close(re.n, st[1], Walk(re.r, s, st, T))
    [] re.t \in {"la", "bol", "eol"} -> st

\* re.match from position i: <<end, captures>> of the first match in
\* priority order, or NoMatch
Match(re, s, i) ==
  IF i \in Pre(re, s, All(s)) THEN Walk(re, s, <<i, NoCaps>>, All(s))
  ELSE NoMatch
\* the match that starts at the least of the starts from p on
MatchFirst(re, s, starts) ==
  IF starts = {} THEN NoMatch
  ELSE <<Min(starts)>> \o Walk(re, s, <<Min(starts), NoCaps>>, All(s))
\* re.search from position p: the leftmost match, or NoMatch; a match is
\* <<start, end, captures>> with end exclusive.
SearchFrom(re, s, p) ==
  MatchFirst(re, s, {q \in Pre(re, s, All(s)) : q >= p})

Search(re, s) == SearchFrom(re, s, 1)
Found(re, s) == Pre(re, s, All(s)) # {}
\* re.match: a match that starts at the first character
MatchAt1(re, s) == 1 \in Pre(re, s, All(s))

Slice(s, a, b) == IF b <= a THEN <<>> ELSE SubSeq(s, a, b - 1)
\* m.group(n) of a match m on s
Group(s, m, n) == Slice(s, m[3][n][1], m[3][n][2])

\* a replacement template: characters, with "\\1".."\\4" standing for groups
Expand(repl, s, m) ==
  LET piece(x) == CASE x = "\\1" -> Group(s, m, 1)
                    [] x = "\\2" -> Group(s, m, 2)
                    [] OTHER -> <<x>>
      RECURSIVE Go(_)
      Go(k) == IF k > Len(repl) THEN <<>> ELSE piece(repl[k]) \o Go(k + 1)
  IN Go(1)

\* re.sub(re, repl, s): every non-overlapping match, left to right
RECURSIVE SubFrom(_, _, _, _)
SubAt(re, repl, s, p, m) ==
  IF m = NoMatch THEN Slice(s, p, Len(s) + 1)
  ELSE Slice(s, p, m[1]) \o Expand(repl, s, m)
       \o (IF m[2] > m[1] THEN SubFrom(re, repl, s, m[2])
           ELSE IF m[1] > Len(s) THEN <<>>
           ELSE <<s[m[1]]>> \o SubFrom(re, repl, s, m[1] + 1))
SubFrom(re, repl, s, p) == SubAt(re, repl, s, p, SearchFrom(re, s, p))

Sub(re, repl, s) == SubFrom(re, repl, s, 1)

\* re.findall / re.finditer: the successive matches
RECURSIVE FindAllFrom(_, _, _)
FindAllAt(re, s, m) ==
  IF m = NoMatch THEN <<>>
  ELSE <<m>> \o FindAllFrom(re, s, IF m[2] > m[1] THEN m[2] ELSE m[2] + 1)
FindAllFrom(re, s, p) == FindAllAt(re, s, SearchFrom(re, s, p))

FindAll(re, s) == FindAllFrom(re, s, 1)

\* re.split(re, s)[0]: the text before the first match
Before(s, m) == IF m = NoMatch THEN s ELSE Slice(s, 1, m[1])
SplitHead(re, s) == Before(s, Search(re, s))

(***************************************************************************)
(* str methods                                                             *)
(***************************************************************************)
\* str.strip()
RECURSIVE LStrip(_)
LStrip(s) == IF s # <<>> /\ Head(s) \in Space THEN LStrip(Tail(s)) ELSE s
RECURSIVE RStrip(_)
RStrip(s) ==
  IF s # <<>> /\ s[Len(s)] \in Space THEN RStrip(SubSeq(s, 1, Len(s) - 1))
  ELSE s
Strip(s) == RStrip(LStrip(s))

\* str.startswith(w)
StartsWith(s, w) == Len(s) >= Len(w) /\ SubSeq(s, 1, Len(w)) = w
\* w in s
Contains(s, w) == \E i \in 1..(Len(s) - Len(w) + 1) : SubSeq(s, i, i + Len(w) - 1) = w
\* s.find(w) + 1, or 0
IndexOf(s, w) ==
  IF Contains(s, w)
  THEN CHOOSE i \in 1..(Len(s) - Len(w) + 1) :
         /\ SubSeq(s, i, i + Len(w) - 1) = w
         /\ \A j \in 1..(i - 1) : SubSeq(s, j, j + Len(w) - 1) # w
  ELSE 0
\* s.split(w, 1)[1]
AfterFirst(s, w) == Slice(s, IndexOf(s, w) + Len(w), Len(s) + 1)
\* s.replace(ch, "")
Remove(s, ch) == SelectSeq(s, LAMBDA x : x # ch)
\* s.split(ch) for a one-character separator
RECURSIVE SplitOn(_, _)
SplitOn(s, ch) ==
  IF \A i \in 1..Len(s) : s[i] # ch THEN <<s>>
  ELSE LET i == CHOOSE i \in 1..Len(s) :
                  s[i] = ch /\ \A j \in 1..(i - 1) : s[j] # ch
       IN <<SubSeq(s, 1, i - 1)>> \o SplitOn(SubSeq(s, i + 1, Len(s)), ch)
\* sep.join(parts)
RECURSIVE Join(_, _)
Join(parts, sep) ==
  IF parts = <<>> THEN <<>>
  ELSE IF Len(parts) = 1 THEN parts[1]
  ELSE parts[1] \o sep \o Join(Tail(parts), sep)


(***************************************************************************)
(* dict and number helpers                                                 *)
(***************************************************************************)
\* data = {}
EmptyDict == [k \in {} |-> <<>>]
\* data[k] = v
Put(d, k, v) == [x \in DOMAIN d \cup {k} |-> IF x = k THEN v ELSE d[x]]
\* k in data
Has(d, k) == k \in DOMAIN d

DigitVal(ch) ==
  CASE ch = "0" -> 0 [] ch = "1" -> 1 [] ch = "2" -> 2 [] ch = "3" -> 3
    [] ch = "4" -> 4 [] ch = "5" -> 5 [] ch = "6" -> 6 [] ch = "7" -> 7
    [] ch = "8" -> 8 [] ch = "9" -> 9
\* int(s) for a string of decimal digits
RECURSIVE ToInt(_)
ToInt(s) ==
  IF s = <<>> THEN 0
  ELSE ToInt(SubSeq(s, 1, Len(s) - 1)) * 10 + DigitVal(s[Len(s)])
\* str(n) for n >= 0
RECURSIVE ToStr(_)
ToStr(n) ==
  LET d == <<"0", "1", "2", "3", "4", "5", "6", "7", "8", "9">>[(n % 10) + 1]
  IN IF n < 10 THEN <<d>> ELSE ToStr(n \div 10) \o <<d>>

(***************************************************************************)
(* _parse_korean_number: Optional[int] is <<>> (None) or <<n>>             *)
(***************************************************************************)
\* r'(\d+)\s*억', r'(\d+)\s*천', r'(\d+)\s*백'
UnitRe(u) == Cat(<<Grp(1, Plus(Cls(Digit))), Star(Cls(Space)), Cls({u})>>)
\* r'\d+\s*[억천백]'
UnitTokenRe == Cat(<<Plus(Cls(Digit)), Star(Cls(Space)), Cls({"Eok", "Cheon", "Baek"})>>)
\* r'[만원\s]'
ManWonRe == Cls({"Man", "Won"} \cup Space)
\* r'(\d+)'
NumberRe == Grp(1, Plus(Cls(Digit)))

\* a faulty UnitAmount: every unit counts ten thousand
UnitAmountFlat(text, u, factor) ==
  LET m == Search(UnitRe(u), text)
  IN IF m = NoMatch THEN 0 ELSE ToInt(Group(text, m, 1)) * 10000

UnitAmount(text, u, factor) ==
  LET m == Search(UnitRe(u), text)
  IN IF m = NoMatch THEN 0 ELSE ToInt(Group(text, m, 1)) * factor

_parse_korean_number(raw) ==
  LET text == Strip(raw)
      has_unit == \E u \in {"Eok", "Cheon", "Baek"} : Found(UnitRe(u), text)
      total == UnitAmount(text, "Eok", 10000) + UnitAmount(text, "Cheon", 1000)
               + UnitAmount(text, "Baek", 100)
      remaining == Strip(Sub(ManWonRe, <<>>, Sub(UnitTokenRe, <<>>, text)))
      extra == Search(NumberRe, remaining)
      clean == Sub(ManWonRe, <<>>, text)
      num_match == Search(NumberRe, clean)
  IN IF text = <<>> THEN <<>>
     ELSE IF has_unit
          THEN <<total + (IF extra = NoMatch THEN 0
                          ELSE ToInt(Group(remaining, extra, 1)))>>
     ELSE IF num_match # NoMatch THEN <<ToInt(Group(clean, num_match, 1))>>
     ELSE <<>>

(***************************************************************************)
(* parse_property_info: the address line (lines 59-81)                     *)
(***************************************************************************)
\* r'\(([^)]+)\)'
AddrParenRe == Cat(<<Cls({"("}), Grp(1, Plus(NCls({")"}))), Cls({")"})>>)
\* r'(중구|동구|서구|남구|북구|수성구|달서구|달성군)'
DistrictRe ==
  Grp(1, Alt(<<Lit(<<"Jung", "Gu">>), Lit(<<"Dong", "Gu">>), Lit(<<"Seo", "Gu">>), Lit(<<"Nam", "Gu">>), Lit(<<"Buk", "Gu">>), Lit(<<"Su", "Seong", "Gu">>),
               Lit(<<"Dal", "Seo", "Gu">>), Lit(<<"Dal", "Seong", "Gun">>)>>))
\* r'일부(?:분)?'
PartialRe == Cat(<<Lit(<<"Il", "Bu">>), Opt(Lit(<<"Bun">>))>>)

AddressKind(d, addr) ==
  LET m == Search(AddrParenRe, addr)
      inner == Group(addr, m, 1)
  IN IF m = NoMatch THEN d
     ELSE IF Contains(inner, <<"Bok", "Cheung">>) THEN Put(d, "propertyKind", <<"Bok", "Cheung">>)
     ELSE IF Contains(inner, <<"Tong", "Sang", "Ga">>) THEN Put(d, "propertyKind", <<"Tong", "Sang", "Ga">>)
     ELSE d

AddressDistrict(d, addr) ==
  LET m == Search(DistrictRe, addr)
  IN IF m = NoMatch THEN d ELSE Put(d, "district", Group(addr, m, 1))

AddressPartial(d, addr) ==
  IF Found(PartialRe, addr) THEN Put(d, "isPartialUnit", <<"halfmoon">> \o <<"Il", "Bu">>) ELSE d

AddressData(first) ==
  LET addr == Strip(first)
  IN AddressPartial(AddressDistrict(AddressKind(
       Put(EmptyDict, "address", addr), addr), addr), addr)

(***************************************************************************)
(* section 1: deposit / rent / VAT (lines 117-147)                         *)
(***************************************************************************)
\* r"^N\.\s*"
SectionPrefixRe(n) == Cat(<<Bol, Cls({n}), Cls({"."}), Star(Cls(Space))>>)
SectionContent(n, line) == Strip(Sub(SectionPrefixRe(n), <<>>, line))

PriceChars == Digit \cup {"Eok", "Cheon", "Baek", "Man", "Won"} \cup Space
\* r'([\d억천백만원\s]+?)/([\d억천백만원\s]+)'
PriceRe == Cat(<<Grp(1, Lazy(Cls(PriceChars), 1, -1)), Cls({"/"}),
                 Grp(2, Plus(Cls(PriceChars)))>>)
\* r'부\s*별|부가세\s*별도|부가세\s*[oO]'
VatSeparateRe ==
  Alt(<<Cat(<<Lit(<<"Bu">>), Star(Cls(Space)), Lit(<<"Byeol">>)>>),
        Cat(<<Lit(<<"Bu", "Ga", "Se">>), Star(Cls(Space)), Lit(<<"Byeol", "Do">>)>>),
        Cat(<<Lit(<<"Bu", "Ga", "Se">>), Star(Cls(Space)), Cls({"o", "O"})>>)>>)
\* r'부\s*없|부\s*[xX]|부가세\s*[xX]|부가세\s*없'
VatNoneRe ==
  Alt(<<Cat(<<Lit(<<"Bu">>), Star(Cls(Space)), Lit(<<"Eops">>)>>),
        Cat(<<Lit(<<"Bu">>), Star(Cls(Space)), Cls({"x", "X"})>>),
        Cat(<<Lit(<<"Bu", "Ga", "Se">>), Star(Cls(Space)), Cls({"x", "X"})>>),
        Cat(<<Lit(<<"Bu", "Ga", "Se">>), Star(Cls(Space)), Lit(<<"Eops">>)>>)>>)
\* r'부가세|확인'
VatCheckRe == Alt(<<Lit(<<"Bu", "Ga", "Se">>), Lit(<<"Hwak", "In">>)>>)

PutOpt(d, k, opt) == IF opt = <<>> THEN d ELSE Put(d, k, opt[1])

\* lines 125-131
PriceData(d, content1, m) ==
  IF m = NoMatch THEN d
  ELSE PutOpt(PutOpt(d, "deposit", _parse_korean_number(Group(content1, m, 1))),
              "monthlyRent", _parse_korean_number(Group(content1, m, 2)))

PriceOf(d, content1) == PriceData(d, content1, Search(PriceRe, content1))
Section1Price(d, line) == PriceOf(d, SectionContent("1", line))

\* a faulty Section1Vat: the default is stored in update mode too
Section1VatDefaulted(d, line, skip_address) ==
  IF Found(VatSeparateRe, line) THEN Put(d, "vatStatus", <<"Byeol", "Do">>)
  ELSE IF Found(VatNoneRe, line) THEN Put(d, "vatStatus", <<"Eops", "Eum">>)
  ELSE Put(d, "vatStatus", <<"Hwak", "In", "Pil", "Yo">>)

Section1Vat(d, line, skip_address) ==
  IF Found(VatSeparateRe, line) THEN Put(d, "vatStatus", <<"Byeol", "Do">>)
  ELSE IF Found(VatNoneRe, line) THEN Put(d, "vatStatus", <<"Eops", "Eum">>)
  ELSE IF Found(VatCheckRe, line) THEN Put(d, "vatStatus", <<"Hwak", "In", "Pil", "Yo">>)
  ELSE IF ~skip_address THEN Put(d, "vatStatus", <<"Hwak", "In", "Pil", "Yo">>)
  ELSE d

Section1Data(d, line, skip_address) ==
  Section1Vat(Section1Price(d, line), line, skip_address)

(***************************************************************************)
(* section 2: maintenance fee (lines 150-151)                              *)
(***************************************************************************)
Section2Data(d, line) == Put(d, "maintenanceFeeText", SectionContent("2", line))

(***************************************************************************)
(* section 3: key money (lines 154-220)                                    *)
(***************************************************************************)
\* r'^권리금\s*|^권(?:리)?\s*(?=\d)'
RightsPrefixRe ==
  Alt(<<Cat(<<Bol, Lit(<<"Gwon", "Ri", "Geum">>), Star(Cls(Space))>>),
        Cat(<<Bol, Lit(<<"Gwon">>), Opt(Lit(<<"Ri">>)), Star(Cls(Space)), La(Cls(Digit))>>)>>)
\* r'[(\(](.+?)[)\)]'
RightsParenRe ==
  Cat(<<Cls({"("}), Grp(1, Lazy(NCls({}), 1, -1)), Cls({")"})>>)
\* r'무권리|권\s*없|권\s*[xX]|권리금\s*[xX]'
NoRightsRe ==
  Alt(<<Lit(<<"Mu", "Gwon", "Ri">>),
        Cat(<<Lit(<<"Gwon">>), Star(Cls(Space)), Lit(<<"Eops">>)>>),
        Cat(<<Lit(<<"Gwon">>), Star(Cls(Space)), Cls({"x", "X"})>>),
        Cat(<<Lit(<<"Gwon", "Ri", "Geum">>), Star(Cls(Space)), Cls({"x", "X"})>>)>>)
\* r'^\d+\s*'
LeadingNumberRe == Cat(<<Bol, Plus(Cls(Digit)), Star(Cls(Space))>>)
\* r'^만\s*원?\s*'
LeadingManWonRe ==
  Cat(<<Bol, Lit(<<"Man">>), Star(Cls(Space)), Opt(Lit(<<"Won">>)), Star(Cls(Space))>>)
\* r'^[,\s]+'
LeadingCommaRe == Cat(<<Bol, Plus(Cls({","} \cup Space))>>)

\* lines 165-172: the text inside the first parentheses
ParenMemo(rights_text, paren_match) ==
  IF paren_match = NoMatch THEN <<>>
  ELSE Strip(Group(rights_text, paren_match, 1))

\* a faulty AmountMemo: the text after the number is never a memo
ParenOnlyMemo(d1, paren_memo, remaining) ==
  IF paren_memo # <<>> THEN Put(d1, "keyMoneyMemo", paren_memo) ELSE d1

\* lines 185-196: the memo of an amount
AmountMemo(d1, paren_memo, remaining) ==
  IF paren_memo # <<>> THEN Put(d1, "keyMoneyMemo", paren_memo)
  ELSE IF remaining # <<>> THEN Put(d1, "keyMoneyMemo", remaining)
  ELSE d1

\* a faulty NoRightsMemo: the leftover text goes before the parenthetical
LeftoverFirstMemo(paren_memo, remaining) ==
  IF remaining # <<>> THEN remaining
  ELSE IF paren_memo # <<>> THEN paren_memo
  ELSE <<"Mu", "Gwon", "Ri">>

\* lines 214-219: the memo of a listing without key money
NoRightsMemo(paren_memo, remaining) ==
  IF paren_memo # <<>> THEN paren_memo
  ELSE IF remaining # <<>> THEN remaining
  ELSE <<"Mu", "Gwon", "Ri">>

\* a faulty KeyMoneyOf: the last branch stores the text without its
\* parenthetical
KeyMoneyOfClean(d, rights_text, paren_memo, rights_clean, num_match) ==
  IF num_match # NoMatch
  THEN AmountMemo(Put(d, "keyMoney", ToInt(Slice(rights_clean, 1, num_match[1]))),
                  paren_memo,
                  Strip(Sub(LeadingManWonRe, <<>>,
                            Strip(Sub(LeadingNumberRe, <<>>, rights_clean)))))
  ELSE IF Found(NoRightsRe, rights_text) \/ rights_text = <<"0">>
  THEN Put(Put(d, "keyMoney", 0), "keyMoneyMemo",
           NoRightsMemo(paren_memo,
                        Strip(Sub(LeadingCommaRe, <<>>,
                                  Strip(Sub(NoRightsRe, <<>>, rights_text))))))
  ELSE Put(d, "keyMoneyMemo", rights_clean)

\* lines 179-221, with num_match = re.match(r'(\d+)', rights_clean)
KeyMoneyOf(d, rights_text, paren_memo, rights_clean, num_match) ==
  IF num_match # NoMatch
  THEN AmountMemo(Put(d, "keyMoney", ToInt(Slice(rights_clean, 1, num_match[1]))),
                  paren_memo,
                  Strip(Sub(LeadingManWonRe, <<>>,
                            Strip(Sub(LeadingNumberRe, <<>>, rights_clean)))))
  ELSE IF Found(NoRightsRe, rights_text) \/ rights_text = <<"0">>
  THEN Put(Put(d, "keyMoney", 0), "keyMoneyMemo",
           NoRightsMemo(paren_memo,
                        Strip(Sub(LeadingCommaRe, <<>>,
                                  Strip(Sub(NoRightsRe, <<>>, rights_text))))))
  ELSE Put(d, "keyMoneyMemo", rights_text)

\* a faulty KeyMoneyParts: the amount is read with its sign, as by r'(-?\d+)'
SignedKeyMoney(d, rights_text, paren_memo, rights_clean) ==
  IF MatchAt1(Cat(<<Lit(<<"-">>), NumberRe>>), rights_clean)
  THEN Put(d, "keyMoney",
           0 - ToInt(Slice(rights_clean, 2, Match(NumberRe, rights_clean, 2)[1])))
  ELSE KeyMoneyOf(d, rights_text, paren_memo, rights_clean,
                  Match(NumberRe, rights_clean, 1))

KeyMoneyParts(d, rights_text, paren_memo, rights_clean) ==
  KeyMoneyOf(d, rights_text, paren_memo, rights_clean,
             Match(NumberRe, rights_clean, 1))

\* lines 164-176
KeyMoney(d, rights_text) ==
  KeyMoneyParts(d, rights_text,
                ParenMemo(rights_text, Search(RightsParenRe, rights_text)),
                Strip(Sub(RightsParenRe, <<>>, rights_text)))

\* lines 155-162
Section3Data(d, line) ==
  KeyMoney(d, Strip(Sub(RightsPrefixRe, <<>>, SectionContent("3", line))))

(***************************************************************************)
(* section 4: building use / area (lines 223-393).  A float is an integer  *)
(* number of hundredths; FloatInf is float('inf').                         *)
(***************************************************************************)
FloatScale == 10 ^ 2
\* the longest integer part float() still converts to a finite double
FloatMaxDigits == 309
FloatInf == 2 ^ 30

RECURSIVE DropZeros(_)
DropZeros(s) == IF s # <<>> /\ Head(s) = "0" THEN DropZeros(Tail(s)) ELSE s

\* float(s) for s matching \d+\.?\d*
ParseFloat(s) ==
  LET whole == SplitOn(s, ".")[1]
      frac == IF Len(SplitOn(s, ".")) > 1 THEN SplitOn(s, ".")[2] ELSE <<>>
      frac2 == SubSeq(frac \o <<"0", "0">>, 1, 2)
  IN IF Len(DropZeros(whole)) > FloatMaxDigits THEN FloatInf
     ELSE ToInt(whole) * FloatScale + ToInt(frac2)

FloatAdd(a, b) == IF a = FloatInf \/ b = FloatInf THEN FloatInf ELSE a + b

\* round(x / 3.3, 1)
Pyeong(x) ==
  IF x = FloatInf THEN FloatInf ELSE ((2 * x + 33) \div 66) * 10

\* str(x) for a float that is not a whole number
FloatStr(x) ==
  ToStr(x \div FloatScale) \o <<".">>
  \o (IF x % 10 = 0 THEN ToStr((x % FloatScale) \div 10)
      ELSE ToStr((x % FloatScale) \div 10) \o ToStr(x % 10))

\* r'\d+\.?\d*'
FloatRe == Cat(<<Plus(Cls(Digit)), Opt(Cls({"."})), Star(Cls(Digit))>>)
\* r'(?:m2|㎡)'
AreaUnitRe == Alt(<<Lit(<<"m", "2">>), Lit(<<"sqm">>)>>)
\* r'계(?:약)?(?:면적)?\s*'
ContractPrefixRe == Cat(<<Lit(<<"Gye">>), Opt(Lit(<<"Yak">>)), Opt(Lit(<<"Myeon", "Jeok">>)), Star(Cls(Space))>>)
\* r'전(?:용)?(?:면적)?\s*'
ExclusivePrefixRe == Cat(<<Lit(<<"Jeon">>), Opt(Lit(<<"Yong">>)), Opt(Lit(<<"Myeon", "Jeok">>)), Star(Cls(Space))>>)
\* r'(?:[/,]\s*|\s+(?=전))'
AreaSepRe == Alt(<<Cat(<<Cls({"/", ","}), Star(Cls(Space))>>),
                   Cat(<<Plus(Cls(Space)), La(Lit(<<"Jeon">>))>>)>>)
\* the tail shared by 면적_패턴 and 통합_match, with the two numbers as
\* groups g and g + 1
AreaPairRe(g) ==
  Cat(<<Opt(ContractPrefixRe), Grp(g, FloatRe), Star(Cls(Space)),
        Opt(AreaUnitRe), Star(Cls(Space)), AreaSepRe, Opt(ExclusivePrefixRe),
        Grp(g + 1, FloatRe)>>)
\* 면적_패턴 (lines 244-253)
FloorAreaRe ==
  Cat(<<Grp(1, Plus(Cls(Digit))), Lit(<<"Cheung">>), Plus(Cls(Space)), AreaPairRe(2)>>)
\* 상세_패턴 (lines 267-273)
FloorDetailRe ==
  Cat(<<Grp(1, Plus(Cls(Digit))), Lit(<<"Cheung">>), Lazy(NCls({"/"}), 0, -1),
        Opt(ContractPrefixRe), Grp(2, FloatRe), Star(Cls(Space)),
        Opt(AreaUnitRe), Lazy(NCls({"/"}), 0, -1),
        ExclusivePrefixRe, Grp(3, FloatRe), Star(Cls(Space)),
        Opt(AreaUnitRe), Lazy(NCls({"/"}), 0, -1),
        Opt(Cat(<<Lit(<<"Yak">>), Star(Cls(Space))>>)), Grp(4, FloatRe),
        Star(Cls(Space)), Lit(<<"Pyeong">>)>>)
\* 통합_match (lines 328-335)
UnifiedAreaRe == AreaPairRe(1)
\* 계약_match (lines 344-347)
ContractAreaRe ==
  Cat(<<ContractPrefixRe, Grp(1, FloatRe), Star(Cls(Space)), Opt(AreaUnitRe)>>)
\* 전용_match (lines 348-351)
ExclusiveAreaRe ==
  Cat(<<ExclusivePrefixRe, Grp(1, FloatRe), Star(Cls(Space)), Opt(AreaUnitRe)>>)

\* 층별_정보[floor] = info: a dict keeps the position of a key's first insertion
RECURSIVE FloorPut(_, _)
FloorPut(info, e) ==
  IF info = <<>> THEN <<e>>
  ELSE IF Head(info).floor = e.floor THEN <<e>> \o Tail(info)
  ELSE <<Head(info)>> \o FloorPut(Tail(info), e)

FloorHas(info, floor) == \E i \in 1..Len(info) : info[i].floor = floor

\* the loop over 면적_패턴 (lines 255-263)
RECURSIVE FloorsFromArea(_, _, _)
FloorsFromArea(info, content4, ms) ==
  IF ms = <<>> THEN info
  ELSE FloorsFromArea(
         FloorPut(info, [floor |-> Group(content4, Head(ms), 1),
                         contract |-> ParseFloat(Group(content4, Head(ms), 2)),
                         exclusive |-> ParseFloat(Group(content4, Head(ms), 3)),
                         pyeong |-> Pyeong(ParseFloat(Group(content4, Head(ms), 3)))]),
         content4, Tail(ms))

\* the loop over 상세_패턴 (lines 275-281)
RECURSIVE FloorsFromDetail(_, _, _)
FloorsFromDetail(info, content4, ms) ==
  IF ms = <<>> THEN info
  ELSE FloorsFromDetail(
         IF FloorHas(info, Group(content4, Head(ms), 1)) THEN info
         ELSE Append(info, [floor |-> Group(content4, Head(ms), 1),
                            contract |-> ParseFloat(Group(content4, Head(ms), 2)),
                            exclusive |-> ParseFloat(Group(content4, Head(ms), 3)),
                            pyeong |-> ParseFloat(Group(content4, Head(ms), 4))]),
         content4, Tail(ms))

FloorInfo(content4) ==
  FloorsFromDetail(FloorsFromArea(<<>>, content4, FindAll(FloorAreaRe, content4)),
                   content4, FindAll(FloorDetailRe, content4))

\* a faulty SortFloors: the floors in the order of the text
FloorsAsWritten(info) == info

\* sorted(층별_정보.keys(), key=int): a stable insertion sort
RECURSIVE InsertFloor(_, _)
InsertFloor(sorted, e) ==
  IF sorted = <<>> THEN <<e>>
  ELSE IF ToInt(e.floor) < ToInt(Head(sorted).floor) THEN <<e>> \o sorted
  ELSE <<Head(sorted)>> \o InsertFloor(Tail(sorted), e)
RECURSIVE SortFloors(_)
SortFloors(info) ==
  IF info = <<>> THEN <<>>
  ELSE InsertFloor(SortFloors(SubSeq(info, 1, Len(info) - 1)), info[Len(info)])

\* 층_이모지.get(층, f"{층}층") (lines 289-307)
FloorEmoji(floor) ==
  IF Len(floor) = 1 /\ floor[1] \in Digit \ {"0"} THEN floor \o <<"vs16", "keycap">>
  ELSE IF floor = <<"1", "0">> THEN <<"keycap10">>
  ELSE floor \o <<"Cheung">>

\* f"{이모지}{평_str}p" (lines 299-308)
FloorToken(e) ==
  FloorEmoji(e.floor)
  \o (IF e.pyeong % FloatScale = 0 THEN ToStr(e.pyeong \div FloatScale)
      ELSE FloatStr(e.pyeong))
  \o <<"p">>

\* a faulty SumField: the area of the first floor only
FirstFloorField(info, contract) ==
  IF contract THEN Head(info).contract ELSE Head(info).exclusive

RECURSIVE SumField(_, _)
SumField(info, contract) ==
  IF info = <<>> THEN 0
  ELSE FloatAdd(IF contract THEN Head(info).contract ELSE Head(info).exclusive,
                SumField(Tail(info), contract))

\* int(평) raises OverflowError for float('inf') (line 301)
Section4Raises(line) ==
  \E f \in Range(FloorInfo(SectionContent("4", line))) : f.pyeong = FloatInf

\* lines 284-312: the floors' areas summed, the floors in order
FloorAreaData(d, info, sorted) ==
  Put(Put(Put(d, "contractArea", SumField(info, TRUE)),
          "exclusiveArea", SumField(info, FALSE)),
      "perFloorAreaDetail",
      Join([i \in 1..Len(sorted) |-> FloorToken(sorted[i])], <<" ">>))

\* data[key] = float(m.group(g)) where m matched
PutArea(d, key, content4, m, g) ==
  IF m = NoMatch THEN d ELSE Put(d, key, ParseFloat(Group(content4, m, g)))

\* lines 313-355: no floor areas
PlainAreaData(d, content4, unified) ==
  IF unified # NoMatch
  THEN PutArea(PutArea(d, "contractArea", content4, unified, 1),
               "exclusiveArea", content4, unified, 2)
  ELSE PutArea(PutArea(d, "contractArea", content4,
                       Search(ContractAreaRe, content4), 1),
               "exclusiveArea", content4, Search(ExclusiveAreaRe, content4), 1)

AreaData(d, content4, info) ==
  IF info # <<>> THEN FloorAreaData(d, info, SortFloors(info))
  ELSE PlainAreaData(d, content4, Search(UnifiedAreaRe, content4))

\* lines 284-355
Section4Area(d, content4) == AreaData(d, content4, FloorInfo(content4))

(***************************************************************************)
(* _normalize_building_use, _abbreviate_building_use, _parse_floor_uses    *)
(***************************************************************************)
Sp == Star(Cls(Space))
\* r'(?:제\s*)?N\s*종|N\s*종\s*근\s*(?:린\s*)?(?:생)?|근\s*생\s*N\s*종|근\s*린\s*N\s*종'
NeighbourhoodRe(n) ==
  Alt(<<Cat(<<Opt(Cat(<<Lit(<<"Je">>), Sp>>)), Cls({n}), Sp, Lit(<<"Jong">>)>>),
        Cat(<<Cls({n}), Sp, Lit(<<"Jong">>), Sp, Lit(<<"Geun">>), Sp, Opt(Cat(<<Lit(<<"Rin">>), Sp>>)),
              Opt(Lit(<<"Saeng">>))>>),
        Cat(<<Lit(<<"Geun">>), Sp, Lit(<<"Saeng">>), Sp, Cls({n}), Sp, Lit(<<"Jong">>)>>),
        Cat(<<Lit(<<"Geun">>), Sp, Lit(<<"Rin">>), Sp, Cls({n}), Sp, Lit(<<"Jong">>)>>)>>)
\* a word with \s* between its characters, e.g. r'판\s*매\s*시\s*설'
RECURSIVE Spaced(_)
Spaced(w) ==
  IF Len(w) = 1 THEN Cls({w[1]})
  ELSE Cat(<<Cls({w[1]}), Sp, Spaced(Tail(w))>>)
\* r'교\s*육\s*(?:연\s*구\s*)?시\s*설'
EducationRe ==
  Cat(<<Spaced(<<"Gyo", "Yuk">>), Sp, Opt(Cat(<<Spaced(<<"Yeon", "Gu">>), Sp>>)), Spaced(<<"Si", "Seol">>)>>)

_normalize_building_use(raw) ==
  LET text == Strip(raw)
  IN IF Found(NeighbourhoodRe("1"), text) THEN <<"Je", "1", "Jong", "Geun", "Rin", "Saeng", "Hwal", "Si", "Seol">>
     ELSE IF Found(NeighbourhoodRe("2"), text) THEN <<"Je", "2", "Jong", "Geun", "Rin", "Saeng", "Hwal", "Si", "Seol">>
     ELSE IF Found(Spaced(<<"Pan", "Mae", "Si", "Seol">>), text) THEN <<"Pan", "Mae", "Si", "Seol">>
     ELSE IF Found(Spaced(<<"Wi", "Rak", "Si", "Seol">>), text) THEN <<"Wi", "Rak", "Si", "Seol">>
     ELSE IF Found(Spaced(<<"Suk", "Bak", "Si", "Seol">>), text) THEN <<"Suk", "Bak", "Si", "Seol">>
     ELSE IF Found(Spaced(<<"Ui", "Ryo", "Si", "Seol">>), text) THEN <<"Ui", "Ryo", "Si", "Seol">>
     ELSE IF Found(EducationRe, text) THEN <<"Gyo", "Yuk", "Yeon", "Gu", "Si", "Seol">>
     ELSE IF Found(Spaced(<<"Eop", "Mu", "Si", "Seol">>), text) THEN <<"Eop", "Mu", "Si", "Seol">>
     ELSE IF Found(Spaced(<<"Su", "Ryeon", "Si", "Seol">>), text) THEN <<"Su", "Ryeon", "Si", "Seol">>
     ELSE IF Found(Spaced(<<"Gong", "Jang">>), text) THEN <<"Gong", "Jang">>
     ELSE IF Found(Spaced(<<"Chang", "Go">>), text) THEN <<"Chang", "Go", "Si", "Seol">>
     ELSE text

_abbreviate_building_use(full_use) ==
  CASE full_use = <<"Je", "1", "Jong", "Geun", "Rin", "Saeng", "Hwal", "Si", "Seol">> -> <<"Je", "1", "Jong">>
    [] full_use = <<"Je", "2", "Jong", "Geun", "Rin", "Saeng", "Hwal", "Si", "Seol">> -> <<"Je", "2", "Jong">>
    [] full_use = <<"Pan", "Mae", "Si", "Seol">> -> <<"Pan", "Mae">>
    [] full_use = <<"Wi", "Rak", "Si", "Seol">> -> <<"Wi", "Rak">>
    [] full_use = <<"Suk", "Bak", "Si", "Seol">> -> <<"Suk", "Bak">>
    [] full_use = <<"Ui", "Ryo", "Si", "Seol">> -> <<"Ui", "Ryo">>
    [] full_use = <<"Gyo", "Yuk", "Yeon", "Gu", "Si", "Seol">> -> <<"Gyo", "Yuk">>
    [] full_use = <<"Eop", "Mu", "Si", "Seol">> -> <<"Eop", "Mu">>
    [] full_use = <<"Su", "Ryeon", "Si", "Seol">> -> <<"Su", "Ryeon">>
    [] full_use = <<"Gong", "Jang">> -> <<"Gong", "Jang">>
    [] full_use = <<"Chang", "Go", "Si", "Seol">> -> <<"Chang", "Go">>
    [] OTHER -> full_use

\* r'\d+\.?\d*\s*/\s*\d+\.?\d*'
AreaTokenRe == Cat(<<FloatRe, Sp, Cls({"/"}), Sp, FloatRe>>)
\* r'\([^)]*\)'
ParenRe == Cat(<<Cls({"("}), Star(NCls({")"})), Cls({")"})>>)
\* r'(?:계(?:약)?|전(?:용)?)\s*\d+\.?\d*\s*(?:m2|㎡)'
AreaWithUnitRe ==
  Cat(<<Alt(<<Cat(<<Lit(<<"Gye">>), Opt(Lit(<<"Yak">>))>>), Cat(<<Lit(<<"Jeon">>), Opt(Lit(<<"Yong">>))>>)>>),
        Sp, FloatRe, Sp, AreaUnitRe>>)
\* r'(\d+(?:[,~\-]\d+)*)\s*층'
FloorMarkerRe ==
  Cat(<<Grp(1, Cat(<<Plus(Cls(Digit)),
                     Star(Cat(<<Cls({",", "~", "-"}), Plus(Cls(Digit))>>))>>)),
        Sp, Lit(<<"Cheung">>)>>)
\* r'^[\s,]+|[\s,]+$'
EdgeCommaRe == Alt(<<Cat(<<Bol, Plus(Cls(Space \cup {","}))>>),
                     Cat(<<Plus(Cls(Space \cup {","})), Eol>>)>>)

\* lines 688-696
FloorUseCleaned(text) ==
  Strip(Sub(AreaWithUnitRe, <<>>, Sub(ParenRe, <<>>, Sub(AreaTokenRe, <<>>, text))))

\* lines 705-722: the pairs <<floor_key, normalized use>> from marker i on
RECURSIVE FloorUsePairs(_, _, _)
FloorUsePairs(cleaned, markers, i) ==
  IF i > Len(markers) THEN <<>>
  ELSE LET end == IF i + 1 <= Len(markers) THEN markers[i + 1][1]
                  ELSE Len(cleaned) + 1
           use_text == Sub(EdgeCommaRe, <<>>,
                           Strip(Slice(cleaned, markers[i][2], end)))
           this == IF use_text = <<>> THEN <<>>
                   ELSE << <<Group(cleaned, markers[i], 1),
                             _normalize_building_use(use_text)>> >>
       IN this \o FloorUsePairs(cleaned, markers, i + 1)

_parse_floor_uses(text) ==
  FloorUsePairs(FloorUseCleaned(text), FindAll(FloorMarkerRe, FloorUseCleaned(text)), 1)

(***************************************************************************)
(* section 4: building use (lines 357-393)                                 *)
(***************************************************************************)
\* r'\s*/\s*계약(?:면적)?|\s+계약(?:면적)?|\s*/\s*전용(?:면적)?|\s+전용(?:면적)?|\s*\d+층'
UseEndRe ==
  Alt(<<Cat(<<Sp, Cls({"/"}), Sp, Lit(<<"Gye", "Yak">>), Opt(Lit(<<"Myeon", "Jeok">>))>>),
        Cat(<<Plus(Cls(Space)), Lit(<<"Gye", "Yak">>), Opt(Lit(<<"Myeon", "Jeok">>))>>),
        Cat(<<Sp, Cls({"/"}), Sp, Lit(<<"Jeon", "Yong">>), Opt(Lit(<<"Myeon", "Jeok">>))>>),
        Cat(<<Plus(Cls(Space)), Lit(<<"Jeon", "Yong">>), Opt(Lit(<<"Myeon", "Jeok">>))>>),
        Cat(<<Sp, Plus(Cls(Digit)), Lit(<<"Cheung">>)>>)>>)

\* the distinct uses in order of first occurrence (lines 363-368)
RECURSIVE SeenUses(_, _)
SeenUses(pairs, seen) ==
  IF pairs = <<>> THEN seen
  ELSE SeenUses(Tail(pairs),
                IF \E i \in 1..Len(seen) : seen[i] = Head(pairs)[2] THEN seen
                ELSE Append(seen, Head(pairs)[2]))

\* str.rstrip(' /')
RECURSIVE RStripSlash(_)
RStripSlash(s) ==
  IF s # <<>> /\ s[Len(s)] \in {" ", "/"}
  THEN RStripSlash(SubSeq(s, 1, Len(s) - 1)) ELSE s

\* lines 366-380: more than one floor with a use
PerFloorUse(floor_use_pairs) ==
  Join([i \in 1..Len(floor_use_pairs) |->
          floor_use_pairs[i][1] \o <<"Cheung", " ">>
          \o _abbreviate_building_use(floor_use_pairs[i][2])],
       <<" ", "/", " ">>)

\* a faulty MultiUseData: the list of uses is not stored
MultiUseWithoutList(d, floor_use_pairs) ==
  Put(d, "perFloorUse", PerFloorUse(floor_use_pairs))

MultiUseData(d, floor_use_pairs) ==
  Put(Put(d, "buildingUse", SeenUses(floor_use_pairs, <<>>)), "perFloorUse",
      PerFloorUse(floor_use_pairs))

\* lines 385-393: no floor marker, the text before the areas is the use
PlainUseData(d, use_text) ==
  IF use_text # <<>>
  THEN Put(d, "buildingUse", <<_normalize_building_use(use_text)>>)
  ELSE d

UseData(d, content4, floor_use_pairs) ==
  IF Len(floor_use_pairs) > 1 THEN MultiUseData(d, floor_use_pairs)
  ELSE IF Len(floor_use_pairs) = 1
  THEN Put(d, "buildingUse", <<floor_use_pairs[1][2]>>)
  ELSE PlainUseData(d, RStripSlash(Strip(SplitHead(UseEndRe, content4))))

\* lines 358-393
Section4Use(d, content4) == UseData(d, content4, _parse_floor_uses(content4))

Section4Content(d, content4) == Section4Use(Section4Area(d, content4), content4)
Section4Data(d, line) == Section4Content(d, SectionContent("4", line))

(***************************************************************************)
(* section 5: parking / bathroom (lines 396-455)                           *)
(***************************************************************************)
\* r'주차\s*[xX]|주차\s*불가|주차\s*안\s*됨'
NoParkingRe ==
  Alt(<<Cat(<<Lit(<<"Ju", "Cha">>), Sp, Cls({"x", "X"})>>),
        Cat(<<Lit(<<"Ju", "Cha">>), Sp, Lit(<<"Bul", "Ga">>)>>),
        Cat(<<Lit(<<"Ju", "Cha">>), Sp, Lit(<<"An">>), Sp, Lit(<<"Doem">>)>>)>>)
\* r'^주차\s*[는은]?\s*'
ParkingHeadRe == Cat(<<Bol, Lit(<<"Ju", "Cha">>), Sp, Opt(Cls({"Neun", "Eun"})), Sp>>)
\* r'^[oOㅇ가능]\s*'
ParkingYesRe == Cat(<<Bol, Cls({"o", "O", "ieung", "Ga", "Neung"}), Sp>>)
\* r'^가능\s*'
ParkingPossibleRe == Cat(<<Bol, Lit(<<"Ga", "Neung">>), Sp>>)
\* r'^장\s*사용'
ParkingLotRe == Cat(<<Bol, Lit(<<"Jang">>), Sp, Lit(<<"Sa", "Yong">>)>>)
\* r'하긴한데|애매|선착순'
ParkingFillerRe == Alt(<<Lit(<<"Ha", "Gin", "Han", "De">>), Lit(<<"Ae", "Mae">>), Lit(<<"Seon", "Chak", "Sun">>)>>)
\* r'\s+'
SpacesRe == Plus(Cls(Space))
\* r"화장실\s*(\d+)"
BathroomCountRe == Cat(<<Lit(<<"Hwa", "Jang", "Sil">>), Sp, Grp(1, Plus(Cls(Digit)))>>)

\* [p.strip() for p in content5.split("/")], one group of the two (lines 398-406)
PartsOf(content5, bathroom) ==
  SelectSeq([i \in 1..Len(SplitOn(content5, "/")) |-> Strip(SplitOn(content5, "/")[i])],
            LAMBDA p : Contains(p, <<"Hwa", "Jang", "Sil">>) = bathroom)

\* lines 423-442
ParkingMemo(parking_text) ==
  LET a == Strip(Sub(ParkingHeadRe, <<>>, parking_text))
      b == Strip(Sub(ParkingYesRe, <<>>, a))
      c == Strip(Sub(ParkingPossibleRe, <<>>, b))
      e == Sub(ParkingLotRe, <<"Ju", "Cha", "Jang">>, c)
      f == Remove(Remove(e, "("), ")")
      g == Strip(Sub(ParkingFillerRe, <<>>, f))
      h == Sub(Cat(<<Grp(1, Cls(Hangul)), Grp(2, Cls(Digit))>>),
               <<"\\1", " ", "\\2">>, g)
  IN Strip(Sub(SpacesRe, <<" ">>, h))

\* lines 408-445
Section5Parking(d, content5) ==
  LET parking_text == Strip(Join(PartsOf(content5, FALSE), <<" ">>))
      pmemo == ParkingMemo(parking_text)
  IN IF parking_text = <<>> \/ ~Contains(parking_text, <<"Ju", "Cha">>) THEN d
     ELSE IF Found(NoParkingRe, parking_text) THEN Put(d, "parkingStatus", <<"Bul", "Ga", "Neung">>)
     ELSE IF pmemo # <<>>
     THEN Put(Put(d, "parkingStatus", <<"Ga", "Neung">>), "parkingMemo", pmemo)
     ELSE Put(d, "parkingStatus", <<"Ga", "Neung">>)

\* lines 448-455, for the bathroom parts from part i on
RECURSIVE Section5Bathroom(_, _, _)
Section5Bathroom(d, parts, i) ==
  IF i > Len(parts) THEN d
  ELSE LET m == Search(BathroomCountRe, parts[i])
           d1 == IF m = NoMatch THEN d
                 ELSE Put(d, "bathroomCount", Group(parts[i], m, 1) \o <<"Gae">>)
           d2 == IF Contains(parts[i], <<"Nae", "Bu">>) THEN Put(d1, "bathroomLocation", <<"Nae", "Bu">>)
                 ELSE IF Contains(parts[i], <<"Oe", "Bu">>) THEN Put(d1, "bathroomLocation", <<"Oe", "Bu">>)
                 ELSE d1
       IN Section5Bathroom(d2, parts, i + 1)

Section5Data(d, line) ==
  Section5Bathroom(Section5Parking(d, SectionContent("5", line)),
                   PartsOf(SectionContent("5", line), TRUE), 1)

(***************************************************************************)
(* section 6: direction (lines 458-463)                                    *)
(***************************************************************************)
\* r"(남향|북향|동향|서향|남동향|남서향|북동향|북서향)"
DirectionRe ==
  Grp(1, Alt(<<Lit(<<"Nam", "Hyang">>), Lit(<<"Buk", "Hyang">>), Lit(<<"Dong", "Hyang">>), Lit(<<"Seo", "Hyang">>), Lit(<<"Nam", "Dong", "Hyang">>), Lit(<<"Nam", "Seo", "Hyang">>),
               Lit(<<"Buk", "Dong", "Hyang">>), Lit(<<"Buk", "Seo", "Hyang">>)>>))

Section6Data(d, line) ==
  LET m == Search(DirectionRe, line)
  IN IF m = NoMatch THEN d ELSE Put(d, "direction", Group(line, m, 1))

(***************************************************************************)
(* section 7: violation status (lines 466-478)                             *)
(***************************************************************************)
\* r'위반\s*[oOㅇ]|대장\s*(위반|불법|위법)'
ViolationRe ==
  Alt(<<Cat(<<Lit(<<"Wi", "Ban">>), Sp, Cls({"o", "O", "ieung"})>>),
        Cat(<<Lit(<<"Dae", "Jang">>), Sp, Grp(1, Alt(<<Lit(<<"Wi", "Ban">>), Lit(<<"Bul", "Beop">>), Lit(<<"Wi", "Beop">>)>>))>>)>>)
\* r'위반\s*[xXㅌ]|대장\s*[oOㅇ]|대장\s*이상\s*[무없]|대장\s*정상'
NoViolationRe ==
  Alt(<<Cat(<<Lit(<<"Wi", "Ban">>), Sp, Cls({"x", "X", "tieut"})>>),
        Cat(<<Lit(<<"Dae", "Jang">>), Sp, Cls({"o", "O", "ieung"})>>),
        Cat(<<Lit(<<"Dae", "Jang">>), Sp, Lit(<<"I_", "Sang">>), Sp, Cls({"Mu", "Eops"})>>),
        Cat(<<Lit(<<"Dae", "Jang">>), Sp, Lit(<<"Jeong", "Sang">>)>>)>>)

Section7Data(d, line) ==
  IF Found(ViolationRe, line)
  THEN Put(d, "violationStatus", <<"Wi", "Ban", "Geon", "Chuk", "Mul">> \o <<"O">>)
  ELSE IF Found(NoViolationRe, line)
  THEN Put(d, "violationStatus", <<"Wi", "Ban", "Geon", "Chuk", "Mul">> \o <<"X">>)
  ELSE d

(***************************************************************************)
(* section 8: contacts (lines 481-508) and _store_contact (lines 521-559)  *)
(***************************************************************************)
\* r"(\d{2,3}[-\s]*\d{3,4}[-\s]*\d{4})"
PhoneRe ==
  Grp(1, Cat(<<Rep(Cls(Digit), 2, 3), Star(Cls({"-"} \cup Space)),
               Rep(Cls(Digit), 3, 4), Star(Cls({"-"} \cup Space)),
               Rep(Cls(Digit), 4, 4)>>))
\* r"([가-힣]+(?:\s+[가-힣]+)*)"
ContactMemoRe ==
  Grp(1, Cat(<<Plus(Cls(Hangul)),
               Star(Cat(<<Plus(Cls(Space)), Plus(Cls(Hangul))>>))>>))

PhoneKey(idx) == <<"contactPhone", "extraPhone1", "extraPhone2">>[idx + 1]
MemoKey(idx) == <<"contactMemo", "extraMemo1", "extraMemo2">>[idx + 1]

\* m.group(1) if m else ""
GroupOr(s, m) == IF m = NoMatch THEN <<>> ELSE Group(s, m, 1)
\* data[key] = v if v
PutIf(d, key, v) == IF v # <<>> THEN Put(d, key, v) ELSE d
\* lines 533-559: the phone and the memo of a contact, in slot idx
StoreAt(d, contact, idx) ==
  PutIf(PutIf(d, PhoneKey(idx), GroupOr(contact, Search(PhoneRe, contact))),
        MemoKey(idx), GroupOr(contact, Search(ContactMemoRe, contact)))

\* a faulty _store_contact: a contact past the third takes the third slot
StoreContactClamped(d, contact, idx) ==
  StoreAt(d, contact, IF idx > 2 THEN 2 ELSE idx)

_store_contact(d, contact, idx) ==
  IF idx > 2 THEN d ELSE StoreAt(d, contact, idx)

\* [c.strip() for c in content.split("/")] (lines 484-487)
ContactEntries(line) ==
  [i \in 1..Len(SplitOn(SectionContent("8", line), "/")) |->
     Strip(SplitOn(SectionContent("8", line), "/")[i])]

\* the loop of lines 488-492, from entry i on, with contact_idx = i - 1
RECURSIVE StoreContacts(_, _, _)
StoreContacts(d, contacts, i) ==
  IF i > Len(contacts) THEN d
  ELSE StoreContacts(_store_contact(d, contacts[i], i - 1), contacts, i + 1)

Section8Data(d, line) == StoreContacts(d, ContactEntries(line), 1)

(***************************************************************************)
(* _merge_section4_lines (lines 727-762); a text is a sequence of lines    *)
(***************************************************************************)
\* r'^\d+\.'
NumberedRe == Cat(<<Bol, Plus(Cls(Digit)), Cls({"."})>>)
\* r'\d+층|\d+\.?\d*/\d+'
ContinuationRe ==
  Alt(<<Cat(<<Plus(Cls(Digit)), Lit(<<"Cheung">>)>>),
        Cat(<<FloatRe, Cls({"/"}), Plus(Cls(Digit))>>)>>)

IsNumbered(line) == MatchAt1(NumberedRe, line)

\* the loop body, for the lines from i on
RECURSIVE MergeFrom(_, _, _, _)
MergeFrom(lines, i, result, in_section4) ==
  IF i > Len(lines) THEN result
  ELSE LET line == lines[i]
           stripped == Strip(line)
       IN IF StartsWith(stripped, <<"4", ".">>)
          THEN MergeFrom(lines, i + 1, Append(result, stripped), TRUE)
          ELSE IF in_section4 /\ ~IsNumbered(stripped) /\ stripped # <<>>
          THEN IF Found(ContinuationRe, stripped) /\ result # <<>>
               THEN MergeFrom(lines, i + 1,
                              [result EXCEPT ![Len(result)] = @ \o <<" ">> \o stripped],
                              TRUE)
               ELSE MergeFrom(lines, i + 1, Append(result, line), FALSE)
          ELSE MergeFrom(lines, i + 1, Append(result, line),
                         in_section4 /\ ~IsNumbered(stripped))

_merge_section4_lines(lines) == MergeFrom(lines, 1, <<>>, FALSE)

\* text.strip() on a text given as its lines
RECURSIVE TextLStrip(_)
TextLStrip(lines) ==
  IF Len(lines) > 1 /\ Strip(Head(lines)) = <<>> THEN TextLStrip(Tail(lines))
  ELSE <<LStrip(Head(lines))>> \o Tail(lines)
RECURSIVE TextRStrip(_)
TextRStrip(lines) ==
  IF Len(lines) > 1 /\ Strip(lines[Len(lines)]) = <<>>
  THEN TextRStrip(SubSeq(lines, 1, Len(lines) - 1))
  ELSE [lines EXCEPT ![Len(lines)] = RStrip(@)]
TextStrip(lines) == TextRStrip(TextLStrip(lines))

\* lines 54-55
PreparedLines(text) == TextStrip(_merge_section4_lines(TextStrip(text)))

(***************************************************************************)
(* _is_listing_format (lines 1845-1868)                                    *)
(***************************************************************************)
RECURSIVE TextLen(_)
TextLen(lines) ==
  IF lines = <<>> THEN 0
  ELSE Len(Head(lines)) + (IF Len(lines) > 1 THEN 1 ELSE 0) + TextLen(Tail(lines))

\* a faulty _is_listing_format: the keyword is enough in both modes
KeywordInAnyMode(raw, is_update) ==
  LET text == TextStrip(raw)
      min_len == IF is_update THEN 3 ELSE 10
  IN /\ TextLen(raw) > 0
     /\ TextLen(text) >= min_len
     /\ \/ \E i \in 1..Len(text) : \E n \in Digit \ {"0", "9"} :
             Contains(text[i], <<n, ".">>)
        \/ \E i \in 1..Len(text) : Contains(text[i], <<"Teuk", "I_", "Sa", "Hang">>)

_is_listing_format(raw, is_update) ==
  LET text == TextStrip(raw)
      min_len == IF is_update THEN 3 ELSE 10
  IN /\ TextLen(raw) > 0
     /\ TextLen(text) >= min_len
     /\ \/ \E i \in 1..Len(text) : \E n \in Digit \ {"0", "9"} :
             Contains(text[i], <<n, ".">>)
        \/ is_update /\ \E i \in 1..Len(text) : Contains(text[i], <<"Teuk", "I_", "Sa", "Hang">>)

(***************************************************************************)
(* _build_update_summary (lines 1954-2023).  The values of the two maps    *)
(* carry their Python type: an int, a float (in hundredths), a str, a list *)
(* of str, a bool, or None.                                               *)
(***************************************************************************)
IntVal(n) == [t |-> "int", v |-> n]
FloatVal(x) == [t |-> "float", v |-> x]
StrVal(s) == [t |-> "str", v |-> s]
ListVal(l) == [t |-> "list", v |-> l]
BoolVal(b) == [t |-> "bool", v |-> b]
None == [t |-> "none", v |-> 0]

\* d.get(key)
Get(d, key) == IF Has(d, key) THEN d[key] ELSE None
\* d.get(key, default)
GetOr(d, key, default) == IF Has(d, key) THEN d[key] ELSE default
\* d.pop(key, None)
Pop(d, key) == [k \in DOMAIN d \ {key} |-> d[k]]

\* isinstance(v, (int, float)) for the values of the maps
IsNumber(v) == v.t \in {"int", "float"}
\* the number in hundredths, for == and != between int and float
NumberOf(v) == IF v.t = "int" THEN v.v * FloatScale ELSE v.v
\* a == b for two values that are not both numbers
SameValue(a, b) == a.t = b.t /\ (a.t = "none" \/ a.v = b.v)

\* str(v) of a number, a str or None
StrOf(v) ==
  CASE v.t = "int" -> ToStr(v.v)
    [] v.t = "float" -> IF v.v % FloatScale = 0
                        THEN ToStr(v.v \div FloatScale) \o <<".", "0">>
                        ELSE FloatStr(v.v)
    [] v.t = "str" -> v.v
    [] v.t = "bool" -> IF v.v THEN <<"T", "r", "u", "e">> ELSE <<"F", "a", "l", "s", "e">>
    [] v.t = "none" -> <<"N", "o", "n", "e">>

\* _to_str (lines 1990-1993)
_to_str(v) ==
  IF v.t = "list" THEN Join(v.v, <<",", " ">>)
  ELSE IF v.t # "none" THEN StrOf(v)
  ELSE <<>>

\* field_names (lines 1961-1981), in the order of the dict
field_names ==
  << <<"address", <<"Ju", "So">>>>, <<"floor", <<"Cheung", "Su">>>>, <<"deposit", <<"Bo", "Jeung", "Geum">>>>,
     <<"monthlyRent", <<"Wol", "Se">>>>, <<"vatStatus", <<"Bu", "Ga", "Se">>>>,
     <<"maintenanceFeeText", <<"Gwan", "Ri", "Bi">>>>, <<"keyMoney", <<"Gwon", "Ri", "Geum">>>>,
     <<"buildingUse", <<"Yong", "Do">>>>, <<"contractArea", <<"Gye", "Yak", "sqm">>>>,
     <<"exclusiveArea", <<"Jeon", "Yong", "sqm">>>>, <<"parkingStatus", <<"Ju", "Cha">>>>,
     <<"direction", <<"Bang", "Hyang">>>>, <<"bathroomLocation", <<"Hwa", "Jang", "Sil", "Wi", "Chi">>>>,
     <<"bathroomCount", <<"Hwa", "Jang", "Sil">>>>, <<"violationStatus", <<"Wi", "Ban">>>>,
     <<"contactPhone", <<"Yeon", "Rak", "Cheo">>>>, <<"propertyKind", <<"Mae", "Mul", "Yu", "Hyeong">>>>,
     <<"district", <<"So", "Jae", "Ji">>>>, <<"isPartialUnit", <<"Im", "Dae", "Gu", "Bun">>>>>>

\* a faulty OldDisp: the old value is shown as it is
OldAsIs(old_val) == old_val

\* line 1998: an old float that is its own truncation is shown as the int
OldDisp(old_val) ==
  IF old_val.t = "float" /\ old_val.v % FloatScale = 0
  THEN IntVal(old_val.v \div FloatScale) ELSE old_val

\* lines 1996-1999: both values are numbers
NumberChange(label, old_val, new_val) ==
  IF NumberOf(old_val) # NumberOf(new_val)
  THEN <<label \o StrOf(OldDisp(old_val)) \o <<"->">> \o StrOf(new_val)>>
  ELSE <<>>

\* lines 2000-2005: the other values
OtherChange(label, old_val, new_val) ==
  IF old_val.t # "none"
  THEN IF _to_str(old_val) # _to_str(new_val)
       THEN <<label \o _to_str(old_val) \o <<"->">> \o _to_str(new_val)>>
       ELSE <<>>
  ELSE <<label \o <<":">> \o _to_str(new_val)>>

\* a faulty FieldChange: a field that is only in old_data is reported as well
FieldChangeOfEither(old_data, new_data, key, label) ==
  IF ~Has(new_data, key)
  THEN IF Has(old_data, key) THEN OtherChange(label, old_data[key], None) ELSE <<>>
  ELSE IF IsNumber(Get(old_data, key)) /\ IsNumber(new_data[key])
  THEN NumberChange(label, Get(old_data, key), new_data[key])
  ELSE OtherChange(label, Get(old_data, key), new_data[key])

\* the body of the loop of lines 1983-2005 for one field
FieldChange(old_data, new_data, key, label) ==
  IF ~Has(new_data, key) THEN <<>>
  ELSE IF IsNumber(Get(old_data, key)) /\ IsNumber(new_data[key])
  THEN NumberChange(label, Get(old_data, key), new_data[key])
  ELSE OtherChange(label, Get(old_data, key), new_data[key])

\* the loop of lines 1983-2005, from field i on
RECURSIVE FieldChanges(_, _, _)
FieldChanges(old_data, new_data, i) ==
  IF i > Len(field_names) THEN <<>>
  ELSE FieldChange(old_data, new_data, field_names[i][1], field_names[i][2])
       \o FieldChanges(old_data, new_data, i + 1)

\* lines 2008-2016: the deal status
StatusChange(old_data, new_data) ==
  IF Has(new_data, "dealStatus")
     /\ ~SameValue(Get(old_data, "dealStatus"), new_data["dealStatus"])
  THEN IF Has(new_data, "dealCompletedAt")
       THEN <<<<"Geo", "Rae", "Wan", "Ryo", "(">> \o StrOf(new_data["dealCompletedAt"]) \o <<")">>>>
       ELSE <<<<"Geo", "Rae", "Sang", "Tae", ":">> \o StrOf(new_data["dealStatus"])>>
  ELSE <<>>

\* a faulty NotesChange: the new notes follow the marker
NotesChangeWithText(old_data, new_data) ==
  IF Has(new_data, "specialNotes")
     /\ StrOf(GetOr(old_data, "specialNotes", StrVal(<<>>))) # StrOf(new_data["specialNotes"])
  THEN <<<<"Teuk", "I_", "Sa", "Hang", "Su", "Jeong", ":">> \o StrOf(new_data["specialNotes"])>>
  ELSE <<>>

\* lines 2019-2021: the notes
NotesChange(old_data, new_data) ==
  IF Has(new_data, "specialNotes")
     /\ StrOf(GetOr(old_data, "specialNotes", StrVal(<<>>))) # StrOf(new_data["specialNotes"])
  THEN <<<<"Teuk", "I_", "Sa", "Hang", "Su", "Jeong">>>>
  ELSE <<>>

\* a faulty Changes: the key-money memo is reported as well
ChangesWithMemo(old_data, new_data) ==
  FieldChanges(old_data, new_data, 1)
  \o FieldChange(old_data, new_data, "keyMoneyMemo", <<"Gwon", "Ri", "Geum", "Me", "Mo">>)
  \o StatusChange(old_data, new_data) \o NotesChange(old_data, new_data)

\* lines 1960-2021: the fragments, in the order of the code
Changes(old_data, new_data) ==
  FieldChanges(old_data, new_data, 1) \o StatusChange(old_data, new_data)
  \o NotesChange(old_data, new_data)

\* a faulty SummaryOf: no fallback
JoinedOnly(changes) == Join(changes, <<",", " ">>)

\* line 2023
SummaryOf(changes) ==
  IF changes # <<>> THEN Join(changes, <<",", " ">>) ELSE <<"Nae", "Yong", "Su", "Jeong">>

_build_update_summary(old_data, new_data) == SummaryOf(Changes(old_data, new_data))

(***************************************************************************)
(* The state machine: one call of parse_property_info after another.       *)
(***************************************************************************)
VARIABLES
  text,                \* the argument text, as its lines
  skip_address,        \* the argument skip_address
  lines,               \* lines (line 55)
  idx,                 \* the position of the for loop in lines (line 88)
  data,                \* data, the record under construction (line 56)
  special_notes,       \* special_notes (line 83)
  in_special_section,  \* in_special_section (line 84)
  contact_idx,         \* contact_idx (line 85)
  in_contacts,         \* in_contacts (line 86)
  pc,                  \* "start", "loop", "done" (returned) or "raised"; in
                       \* handle_edited_message "parsed", "summarize", "summarized"
  returned,            \* the calls that have ended: [text, skip_address, ok, data]
  old_data,            \* old_data of handle_edited_message (line 2390)
  new_data,            \* new_property_data (lines 2393-2402)
  summary,             \* summary (line 2424)
  gate,                \* the call of _is_listing_format: <<>> before it, then
                       \* [is_update, ok] with its argument and what it returned
  _chat_buffers,       \* self._chat_buffers: chat -> the buffered photo URLs
  _collect_tasks,      \* self._collect_tasks: chat -> its expiry task, or 0
  _save_tasks,         \* self._save_tasks: chat -> its save task, or 0
  tasks,               \* the asyncio tasks created so far: [kind, chat_id, state]
  saved,               \* the calls of _save_property_to_notion:
                       \* [description, photo_urls]
  deleted,             \* the trigger messages that were deleted in Telegram
  photos_sent          \* the number of photo messages received

vars == <<text, skip_address, lines, idx, data, special_notes,
          in_special_section, contact_idx, in_contacts, pc, returned,
          old_data, new_data, summary, gate, _chat_buffers, _collect_tasks,
          _save_tasks, tasks, saved, deleted, photos_sent>>

\* the buffers and tasks of the bot
bot == <<_chat_buffers, _collect_tasks, _save_tasks, tasks, saved, deleted,
         photos_sent>>

\* the variables of the handlers
edit == <<old_data, new_data, summary, gate, bot>>

\* the chats of the model
MaxChats == 2
Chats == 1..MaxChats

\* __init__ (lines 1774-1778): no buffer, no task
BotInit ==
  /\ _chat_buffers = [c \in Chats |-> <<>>]
  /\ _collect_tasks = [c \in Chats |-> 0]
  /\ _save_tasks = [c \in Chats |-> 0]
  /\ tasks = <<>>
  /\ saved = <<>>
  /\ deleted = {}
  /\ photos_sent = 0

locals == <<lines, idx, data, special_notes, in_special_section, contact_idx,
            in_contacts>>

Keyword == <<"Teuk", "I_", "Sa", "Hang">>
KeywordPlus == <<"Teuk", "I_", "Sa", "Hang", "+">>

\* line = line.strip() (line 89)
Line == Strip(lines[idx])
InLoop == pc = "loop" /\ idx <= Len(lines)

\* a faulty Branch: a numbered section line is parsed in special-notes mode
BranchSectionFirst(line) ==
  LET is_numbered == IsNumbered(line)
      section == IF Len(line) >= 2 /\ line[2] = "." /\ line[1] \in Digit \ {"0", "9"}
                 THEN line[1] ELSE "none"
  IN IF line = <<>> THEN "blank"
     ELSE IF Contains(line, Keyword) THEN "keyword"
     ELSE IF section # "none" THEN section
     ELSE IF in_special_section THEN "note"
     ELSE IF in_contacts /\ ~is_numbered THEN "contact"
     ELSE IF ~is_numbered /\ DOMAIN data # {} THEN "stray"
     ELSE "none"

\* a faulty Branch: a stray line is taken as a note even when the record is
\* still empty
BranchOfAnyRecord(line) ==
  LET is_numbered == IsNumbered(line)
      section == IF Len(line) >= 2 /\ line[2] = "." /\ line[1] \in Digit \ {"0", "9"}
                 THEN line[1] ELSE "none"
  IN IF line = <<>> THEN "blank"
     ELSE IF Contains(line, Keyword) THEN "keyword"
     ELSE IF in_special_section THEN "note"
     ELSE IF section # "none" THEN section
     ELSE IF in_contacts /\ ~is_numbered THEN "contact"
     ELSE IF ~is_numbered THEN "stray"
     ELSE "none"

\* the branch of the loop body (lines 90-513) that a line takes
Branch(line) ==
  LET is_numbered == IsNumbered(line)
      section == IF Len(line) >= 2 /\ line[2] = "." /\ line[1] \in Digit \ {"0", "9"}
                 THEN line[1] ELSE "none"
  IN IF line = <<>> THEN "blank"
     ELSE IF Contains(line, Keyword) THEN "keyword"
     ELSE IF in_special_section THEN "note"
     ELSE IF section # "none" THEN section
     ELSE IF in_contacts /\ ~is_numbered THEN "contact"
     ELSE IF ~is_numbered /\ DOMAIN data # {} THEN "stray"
     ELSE "none"

\* a faulty Start: special_notes is a list kept from call to call (a mutable
\* default), not created afresh
StartKeepsNotes ==
  /\ pc = "start"
  /\ lines' = PreparedLines(text)
  /\ data' = IF ~skip_address THEN AddressData(PreparedLines(text)[1]) ELSE EmptyDict
  /\ idx' = IF ~skip_address THEN 2 ELSE 1
  /\ in_special_section' = FALSE
  /\ contact_idx' = 0
  /\ in_contacts' = FALSE
  /\ pc' = "loop"
  /\ UNCHANGED <<edit, text, skip_address, special_notes, returned>>

\* lines 54-86
Start ==
  /\ pc = "start"
  /\ lines' = PreparedLines(text)
  /\ data' = IF ~skip_address THEN AddressData(PreparedLines(text)[1]) ELSE EmptyDict
  /\ idx' = IF ~skip_address THEN 2 ELSE 1
  /\ special_notes' = <<>>
  /\ in_special_section' = FALSE
  /\ contact_idx' = 0
  /\ in_contacts' = FALSE
  /\ pc' = "loop"
  /\ UNCHANGED <<edit, text, skip_address, returned>>

\* lines 90-91
Blank ==
  /\ InLoop /\ Branch(Line) = "blank"
  /\ idx' = idx + 1
  /\ UNCHANGED <<edit, text, skip_address, lines, data, special_notes,
                 in_special_section, contact_idx, in_contacts, pc, returned>>

\* lines 93-105
NotesKeyword ==
  /\ InLoop /\ Branch(Line) = "keyword"
  /\ in_special_section' = TRUE
  /\ in_contacts' = FALSE
  /\ data' = IF Contains(Line, KeywordPlus)
             THEN Put(data, "specialNotesAppendMode", TRUE) ELSE data
  /\ LET rest == IF Contains(Line, KeywordPlus)
                 THEN Strip(AfterFirst(Line, KeywordPlus))
                 ELSE Strip(AfterFirst(Line, Keyword))
     IN special_notes' = IF rest # <<>> THEN Append(special_notes, rest)
                         ELSE special_notes
  /\ idx' = idx + 1
  /\ UNCHANGED <<edit, text, skip_address, lines, contact_idx, pc, returned>>

\* lines 107-109
NotesLine ==
  /\ InLoop /\ Branch(Line) = "note"
  /\ special_notes' = Append(special_notes, Line)
  /\ idx' = idx + 1
  /\ UNCHANGED <<edit, text, skip_address, lines, data, in_special_section,
                 contact_idx, in_contacts, pc, returned>>

\* a numbered section other than 8 and 4: lines 112-114 and the section's branch
SectionStep(n, d) ==
  /\ InLoop /\ Branch(Line) = n
  /\ in_contacts' = FALSE
  /\ data' = d
  /\ idx' = idx + 1
  /\ UNCHANGED <<edit, text, skip_address, lines, special_notes, in_special_section,
                 contact_idx, pc, returned>>

Section1 == SectionStep("1", Section1Data(data, Line, skip_address))
Section2 == SectionStep("2", Section2Data(data, Line))
Section3 == SectionStep("3", Section3Data(data, Line))
Section5 == SectionStep("5", Section5Data(data, Line))
Section6 == SectionStep("6", Section6Data(data, Line))
Section7 == SectionStep("7", Section7Data(data, Line))

\* lines 223-393; the OverflowError of line 301 leaves the call
Section4 ==
  /\ InLoop /\ Branch(Line) = "4"
  /\ in_contacts' = FALSE
  /\ IF Section4Raises(Line)
     THEN /\ pc' = "raised"
          /\ returned' = Append(returned, [text |-> text, skip_address |-> skip_address,
                                           ok |-> FALSE, data |-> EmptyDict])
          /\ UNCHANGED <<data, idx>>
     ELSE /\ data' = Section4Data(data, Line)
          /\ idx' = idx + 1
          /\ UNCHANGED <<pc, returned>>
  /\ UNCHANGED <<edit, text, skip_address, lines, special_notes, in_special_section,
                 contact_idx>>

\* lines 481-492
Section8 ==
  /\ InLoop /\ Branch(Line) = "8"
  /\ in_contacts' = TRUE
  /\ data' = Section8Data(data, Line)
  /\ contact_idx' = Len(ContactEntries(Line))
  /\ idx' = idx + 1
  /\ UNCHANGED <<edit, text, skip_address, lines, special_notes, in_special_section,
                 pc, returned>>

\* a faulty ContactLine: a line without a phone number starts the notes and
\* contacts mode stays on
ContactLineKeepsMode ==
  /\ InLoop /\ Branch(Line) = "contact"
  /\ IF Found(PhoneRe, Line) /\ contact_idx < 3
     THEN /\ data' = _store_contact(data, Line, contact_idx)
          /\ contact_idx' = contact_idx + 1
          /\ UNCHANGED <<in_contacts, in_special_section, special_notes>>
     ELSE /\ in_special_section' = TRUE
          /\ special_notes' = Append(special_notes, Line)
          /\ UNCHANGED <<data, contact_idx, in_contacts>>
  /\ idx' = idx + 1
  /\ UNCHANGED <<edit, text, skip_address, lines, pc, returned>>

\* lines 495-508
ContactLine ==
  /\ InLoop /\ Branch(Line) = "contact"
  /\ IF Found(PhoneRe, Line) /\ contact_idx < 3
     THEN /\ data' = _store_contact(data, Line, contact_idx)
          /\ contact_idx' = contact_idx + 1
          /\ UNCHANGED <<in_contacts, in_special_section, special_notes>>
     ELSE /\ in_contacts' = FALSE
          /\ in_special_section' = TRUE
          /\ special_notes' = Append(special_notes, Line)
          /\ UNCHANGED <<data, contact_idx>>
  /\ idx' = idx + 1
  /\ UNCHANGED <<edit, text, skip_address, lines, pc, returned>>

\* lines 511-513
StrayLine ==
  /\ InLoop /\ Branch(Line) = "stray"
  /\ in_special_section' = TRUE
  /\ special_notes' = Append(special_notes, Line)
  /\ idx' = idx + 1
  /\ UNCHANGED <<edit, text, skip_address, lines, data, contact_idx, in_contacts,
                 pc, returned>>

\* a line that takes no branch of lines 117-513; lines 112-114 still run
Unmatched ==
  /\ InLoop /\ Branch(Line) = "none"
  /\ in_contacts' = IF IsNumbered(Line) THEN FALSE ELSE in_contacts
  /\ idx' = idx + 1
  /\ UNCHANGED <<edit, text, skip_address, lines, data, special_notes,
                 in_special_section, contact_idx, pc, returned>>

\* lines 515-518
Return ==
  /\ pc = "loop" /\ idx > Len(lines)
  /\ data' = IF special_notes # <<>>
             THEN Put(data, "specialNotes", Join(special_notes, <<"\n">>))
             ELSE data
  /\ pc' = "done"
  /\ returned' = Append(returned, [text |-> text, skip_address |-> skip_address,
                                   ok |-> TRUE, data |-> data'])
  /\ UNCHANGED <<edit, text, skip_address, lines, idx, special_notes,
                 in_special_section, contact_idx, in_contacts>>

Step ==
  \/ Start \/ Blank \/ NotesKeyword \/ NotesLine
  \/ Section1 \/ Section2 \/ Section3 \/ Section4 \/ Section5 \/ Section6
  \/ Section7 \/ Section8 \/ ContactLine \/ StrayLine \/ Unmatched \/ Return

Next == Step

(***************************************************************************)
(* The texts the calls are made with.                                      *)
(***************************************************************************)
MaxLines == 3
MaxTail == 2
MaxCalls == 3

\* all sequences over S of length lo..hi
SeqsOf(S, lo, hi) == UNION {[1..n -> S] : n \in lo..hi}

\* lines that move the parser between its modes
ModeLines ==
  { <<"Teuk", "I_", "Sa", "Hang", " ", "Me", "Mo">>, <<"2", ".", " ", "Teuk", "I_", "Sa", "Hang", "+">>, <<"Me", "Mo", " ">>, <<"2", ".", " ", "Sil", "Bi">>,
    <<"8", ".", " ", "Yang", "Do", "In", " ", "0", "1", "0", "-", "1", "2", "3", "4", "-", "5", "6", "7", "8", "/", "0", "1", "0", "-", "2", "2", "2", "2", "-", "3", "3", "3", "3">>, <<"0", "1", "0", "-", "9", "9", "9", "9", "-", "8", "8", "8", "8", " ", "Im", "Dae", "In">>, <<>>,
    <<"4", ".", " ", "1", "Cheung", " ", "4", "0", "/", "4", "0">>, <<"2", "Cheung", " ", "5", "0", "/", "5", "0">> }
ModeTexts == SeqsOf(ModeLines, 1, MaxLines)

\* an '8.' line with 0 to 4 entries, followed by continuation lines
Contact8Lines ==
  { <<"8", ".">>, <<"8", ".", " ", "0", "1", "0", "-", "1", "1", "1", "1", "-", "2", "2", "2", "2">>, <<"8", ".", " ", "Yang", "Do", "In", " ", "/", " ", "0", "2", "-", "1", "2", "3", "-", "4", "5", "6", "7">>,
    <<"8", ".", " ", "0", "1", "0", "-", "1", "1", "1", "1", "-", "2", "2", "2", "2", "/", "0", "1", "0", "-", "3", "3", "3", "3", "-", "4", "4", "4", "4", " ", "Sa", "Jang", "/", "0", "2", " ", "5", "5", "5", " ", "6", "6", "6", "6">>,
    <<"8", ".", " ", "0", "1", "0", "-", "1", "1", "1", "1", "-", "2", "2", "2", "2", "/", "0", "1", "0", "-", "3", "3", "3", "3", "-", "4", "4", "4", "4", "/", "0", "1", "0", "-", "5", "5", "5", "5", "-", "6", "6", "6", "6", "/", "Im", "Dae", "In", " ", "0", "1", "0", "-", "7", "7", "7", "7", "-", "8", "8", "8", "8">> }
ContactTailLines == { <<"0", "1", "0", "-", "9", "9", "9", "9", "-", "8", "8", "8", "8", " ", "Im", "Dae", "In">>, <<"Me", "Mo", " ", "1", "2", "-", "3", "4">>, <<"9", ".", " ", "Gi", "Ta">> }
ContactTexts ==
  { <<<<"Seo", "Gu", " ", "1", "2">>, c>> \o t : c \in Contact8Lines,
                             t \in SeqsOf(ContactTailLines, 0, MaxTail) }

\* first lines
AddressLines ==
  { <<"Dal", "Seo", "Gu", " ", "1", "2", " ", "(", "Bok", "Cheung", ")">>, <<"Su", "Seong", "Gu", " ", "1", "Cheung", " ", "Il", "Bu", "Bun", " ", "(", "Tong", "Sang", "Ga", ")">>, <<" ", "Jung", "Gu", " ", "Il", "Bu", " ", "(", "1", "Cheung", ")">>,
    <<"1", ".", " ", "1", "0", "0", "0", "/", "5", "0">>, <<"4", ".", " ", "1", "Cheung">>, <<>> }
AddressTexts ==
  { <<a>> \o t : a \in AddressLines,
                 t \in {<<>>, <<<<"2", "Cheung", " ", "5", "0", "/", "5", "0">>>>, <<<<"2", ".", " ", "Sil", "Bi">>, <<"Me", "Mo">>>>} }

\* section 1: a price and a VAT remark
PriceParts ==
  { <<>>, <<"1", "0", "0", "0", "/", "5", "0">>, <<"2", "Eok", "/", "1", "1", "0">>, <<"1", "Eok", " ", "5", "Cheon", "/", "3", "Baek">>, <<"5", "0", "0", "0", "Man", "Won", " ", "/", " ", "2", "0", "0", "Man", "Won">>,
    <<"1", "Eok", "5", "0", "0", "0", "/", " ", "Man", "Won">>, <<"Bo", "Jeung", "Geum", " ", "1", "0", "0", "0", " ", "Wol", "Se", " ", "5", "0">> }
VatParts ==
  { <<>>, <<" ", "Bu", "Byeol">>, <<" ", "Bu", "Ga", "Se", " ", "Byeol", "Do">>, <<" ", "Bu", "Ga", "Se", "O">>, <<" ", "Bu", " ", "x">>, <<" ", "Bu", "Eops", "Eum">>,
    <<" ", "Bu", "Ga", "Se", " ", "Eops", "Eum">>, <<" ", "Bu", "Ga", "Se">>, <<" ", "Hwak", "In">>, <<" ", "Bu", "Ga", "Se", "Byeol", "Do", " ", "Hwak", "In">> }
Section1Lines == { <<"1", ".", " ">> \o p \o v : p \in PriceParts, v \in VatParts }

\* section 3: a prefix, a body and a tail
RightsPrefixes == { <<>>, <<"Gwon", "Ri", "Geum", " ">>, <<"Gwon", "Ri">>, <<"Gwon">> }
RightsBodies ==
  { <<>>, <<"Mu", "Gwon", "Ri">>, <<"Gwon", "Eops">>, <<"Gwon", " ", "X">>, <<"Gwon", "Ri", "Geum", "x">>, <<"0">>, <<"3", "0", "0", "0">>,
    <<"5", "0", "0", "Man", "Won">>, <<"Hyeop", "Ui">>, <<"-", "5", "0", "0">> }
RightsTails ==
  { <<>>, <<"(", "Sa", "Mu", "Sil", "Yong", ")">>, <<" ", "Si", "Seol", " ", "Po", "Ham">>, <<",", " ", "Hyeop", "Ui">>, <<" ", "(", " ", ")">>, <<" ", "(", "Mu", "Gwon", "Ri", ")">> }
Section3Lines ==
  { <<"3", ".", " ">> \o p \o b \o t : p \in RightsPrefixes, b \in RightsBodies,
                              t \in RightsTails }

\* section 4: uses and areas
HugeArea == [k \in 1..(FloatMaxDigits + 1) |-> "9"]
Section4Lines ==
  { <<"4", ".", " ", "1", "Jong", "Geun", "Saeng", " ", "/", " ", "Gye", "Yak", " ", "4", "0", " ", "/", " ", "Jeon", "Yong", " ", "3", "0">>, <<"4", ".", " ", "2", "Jong", "Geun", "Saeng", " ", "Gye", "Yak", "1", "4", "4", "m", "2", " ", "Jeon", "Yong", "3", "3", "m", "2">>,
    <<"4", ".", " ", "1", "Cheung", " ", "1", "Jong", "Geun", "Saeng", " ", "2", "Cheung", " ", "2", "Jong", "Geun", "Saeng", " ", "1", "Cheung", " ", "4", "0", "/", "4", "0", " ", "2", "Cheung", " ", "5", "0", "/", "5", "0">>,
    <<"4", ".", " ", "1", "Cheung", " ", "1", "Jong", "Geun", "Saeng", " ", "2", "Cheung", " ", "1", "Jong", "Geun", "Saeng">>, <<"4", ".", " ", "1", "Cheung", " ", "Pan", "Mae", "Si", "Seol", " ", "4", "0", "/", "3", "3", ".", "0", "5">>,
    <<"4", ".", " ", "2", "Cheung", " ", "5", "0", "/", "5", "0", " ", "1", "0", "Cheung", " ", "3", "0", "/", "2", "0", " ", "1", "Cheung", " ", "4", "0", "/", "4", "0">>, <<"4", ".", " ", "2", "Cheung", " ", "5", "0", "/", "5", "0", " ", "2", "Cheung", " ", "3", "0", "/", "2", "0">>, <<"4", ".", " ", "0", "1", "Cheung", " ", "4", "0", "/", "4", "0", " ", "1", "Cheung", " ", "5", "0", "/", "5", "0">>,
    <<"4", ".", " ", "2", "Cheung", " ", "2", "Jong", "Geun", "Saeng", " ", "1", "Cheung", " ", "1", "Jong", "Geun", "Saeng">>,
    <<"4", ".", " ", "1", "Cheung", " ", "Gye", "Yak", "4", "8", ".", "4", "3", "sqm", " ", "Jeon", "Yong", "4", "8", ".", "4", "3", "sqm", " ", "1", "4", ".", "5", "Pyeong", " ", "2", "Cheung", " ", "Gye", "Yak", " ", "4", "0", " ", "Jeon", "Yong", " ", "3", "3", " ", "Yak", " ", "1", "0", "Pyeong">>,
    <<"4", ".", " ", "Sa", "Mu", "Sil", " ", "6", "0", ",", "4", "5">>, <<"4", ".", " ", "Geun", "Saeng", " ", "-", "4", "0", "/", "-", "3", "0">>, <<"4", ".", " ", "Gye", "Yak", "-", "4", "0", " ", "Jeon", "Yong", "-", "3", "0">>,
    <<"4", ".", " ", "1", ",", "2", "Cheung", " ", "Eop", "Mu", "Si", "Seol", " ", "3", "Cheung", " ", "Chang", "Go", " ", "Gye", "Yak", " ", "1", "0", "0", " ", "Jeon", "Yong", " ", "9", "0">>, <<"4", ".", " ", "1", "Cheung">>, <<"4", ".">>,
    <<"4", ".", " ", "Gyo", "Yuk", "Si", "Seol", " ", "Jeon", "Yong", "Myeon", "Jeok", " ", "2", "5", ".", "5", " ", "(", "Yak", " ", "8", "Pyeong", ")">>, <<"4", ".", " ", "0", "1", "Cheung", " ", "0", "/", "0", " ", "1", "Cheung", " ", "0", ".", "5", "/", "0", ".", "5">>,
    <<"4", ".", " ", "Gong", "Jang", " ">> \o HugeArea \o <<"/", "3", "0">>, <<"4", ".", " ", "1", "Cheung", " ", "4", "0", "/">> \o HugeArea }

\* section 5: parking and bathroom parts
ParkingParts ==
  { <<>>, <<"Ju", "Cha", "X">>, <<"Ju", "Cha", " ", "Bul", "Ga">>, <<"Ju", "Cha", " ", "An", " ", "Doem">>, <<"Ju", "Cha", " ", "Ga", "Neung">>,
    <<"Ju", "Cha", " ", "O", " ", "Mae", "Jang", "Ap_", "1", "Dae">>, <<"Ju", "Cha", "(", "Gi", "Gye", "Sik", "6", "0", "Dae", ")">>, <<"Ju", "Cha", "Jang", " ", "Sa", "Yong", " ", "Seon", "Chak", "Sun">>,
    <<"Ju", "Cha", "Neun", " ", "Ae", "Mae">>, <<"Bul", "Ga">> }
BathroomParts ==
  { <<>>, <<" ", "/", " ", "Hwa", "Jang", "Sil", " ", "Nae", "Bu", " ", "1">>, <<"/", "Hwa", "Jang", "Sil", "2", " ", "Oe", "Bu">>, <<" ", "Hwa", "Jang", "Sil", " ", "Oe", "Bu">>,
    <<" ", "/", " ", "Hwa", "Jang", "Sil", " ", "Yeop_", " ", "Ju", "Cha", " ", "Bul", "Ga">> }
Section5Lines == { <<"5", ".", " ">> \o p \o b : p \in ParkingParts, b \in BathroomParts }

Section67Lines ==
  { <<"6", ".", " ", "Nam", "Hyang">>, <<"6", ".", " ", "Buk", "Seo", "Hyang">>, <<"6", ".", " ", "Dong">>, <<"7", ".", " ", "Wi", "Ban", " ", "x">>, <<"7", ".", " ", "Dae", "Jang", " ", "Wi", "Beop">>,
    <<"7", ".", " ", "Wi", "Ban", "ieung">>, <<"7", ".", " ", "Dae", "Jang", " ", "I_", "Sang", " ", "Mu">>, <<"7", ".", " ", "Jeong", "Sang">> }

\* one section line after a first line, and two section-5 lines
SectionTexts ==
  { <<<<"Seo", "Gu", " ", "1", "2">>, l>> : l \in Section1Lines \cup Section3Lines \cup Section4Lines
                               \cup Section5Lines \cup Section67Lines }
  \cup { <<<<"5", ".", " ", "Ju", "Cha", " ", "Ga", "Neung", " ", "Mae", "Jang", "Ap_">>, l>> : l \in Section5Lines }
  \cup { <<<<"1", ".", " ", "Bu", "Byeol">>, l>> : l \in Section1Lines }

Inputs == ModeTexts \cup ContactTexts \cup AddressTexts \cup SectionTexts

\* the texts of the calls that follow one another
CallTexts ==
  { <<<<"Seo", "Gu", " ", "1", "2">>, <<"1", ".", " ", "1", "0", "0", "0", "/", "5", "0", " ", "Bu", "Byeol">>, <<"2", ".", " ", "Sil", "Bi">>, <<"3", ".", " ", "Mu", "Gwon", "Ri">>, <<>>,
      <<"5", ".", " ", "Ju", "Cha", " ", "Ga", "Neung">>, <<"6", ".", " ", "Nam", "Hyang">>, <<"7", ".", " ", "Wi", "Ban", " ", "x">>, <<"Teuk", "I_", "Sa", "Hang", " ", "Me", "Mo">>, <<"Chu", "Ga">>>>,
    <<<<"8", ".", " ", "0", "1", "0", "-", "1", "1", "1", "1", "-", "2", "2", "2", "2">>, <<"0", "1", "0", "-", "9", "9", "9", "9", "-", "8", "8", "8", "8", " ", "Im", "Dae", "In">>>>,
    <<<<"4", ".", " ", "1", "Cheung", " ", "4", "0", "/", "4", "0">>, <<"2", "Cheung", " ", "5", "0", "/", "5", "0">>>>,
    <<<<"Me", "Mo">>>> }

InitWith(texts) ==
  /\ text \in texts
  /\ skip_address \in BOOLEAN
  /\ lines = <<>>
  /\ idx = 1
  /\ data = EmptyDict
  /\ special_notes = <<>>
  /\ in_special_section = FALSE
  /\ contact_idx = 0
  /\ in_contacts = FALSE
  /\ pc = "start"
  /\ returned = <<>>
  /\ old_data = EmptyDict
  /\ new_data = EmptyDict
  /\ summary = <<>>
  /\ BotInit
  /\ gate = <<>>

Init == InitWith(Inputs)
Spec == Init /\ [][Next]_vars

\* the caller calls parse_property_info again
Call ==
  /\ pc \in {"done", "raised"}
  /\ Len(returned) < MaxCalls
  /\ text' \in CallTexts
  /\ skip_address' \in BOOLEAN
  /\ pc' = "start"
  /\ UNCHANGED <<locals, returned, edit>>

InitCalls == InitWith(CallTexts)
NextCalls == Step \/ Call
SpecCalls == InitCalls /\ [][NextCalls]_vars

(***************************************************************************)
(* handle_edited_message: the summary of an edit (lines 2390-2424).        *)
(***************************************************************************)
\* lines 2401-2402: new_property_data.pop("특이사항_추가", None)
PopAppendMode ==
  /\ pc = "parsed"
  /\ new_data' = Pop(new_data, "specialNotesAppendMode")
  /\ pc' = "summarize"
  /\ UNCHANGED <<bot, old_data, summary, gate, text, skip_address, locals, returned>>

\* a call of the static method _build_update_summary: that of line 2424, after
\* the pop, or one with the maps as they are
BuildSummary ==
  /\ pc \in {"parsed", "summarize"}
  /\ summary' = _build_update_summary(old_data, new_data)
  /\ pc' = "summarized"
  /\ UNCHANGED <<bot, old_data, new_data, gate, text, skip_address, locals, returned>>

\* the most fields of a map
MaxFields == 2

\* the values a field takes in the maps
FieldValues(key) ==
  CASE key = "deposit" ->
         {IntVal(2000), IntVal(2500), FloatVal(2000 * FloatScale), FloatVal(1250)}
    [] key = "contractArea" -> {IntVal(40), FloatVal(4050)}
    [] key = "address" -> {StrVal(<<"Seo", "Gu", " ", "1", "2">>), StrVal(<<"Jung", "Gu", " ", "3">>)}
    [] key = "buildingUse" ->
         {ListVal(<<<<"Pan", "Mae", "Si", "Seol">>>>), ListVal(<<<<"Pan", "Mae", "Si", "Seol">>, <<"Eop", "Mu", "Si", "Seol">>>>)}
    [] key = "specialNotes" -> {StrVal(<<"Me", "Mo">>), StrVal(<<"Chu", "Ga">>)}
    [] key = "dealStatus" -> {StrVal(<<"Geo", "Rae", " ", "Wan", "Ryo">>), StrVal(<<"Geo", "Rae", " ", "Ga", "Neung">>)}
    [] key = "dealCompletedAt" -> {StrVal(<<"1", "1", "-", "0", "5">>)}
    [] key = "specialNotesAppendMode" -> {BoolVal(TRUE)}
    [] key = "keyMoneyMemo" -> {StrVal(<<"Si", "Seol", " ", "Po", "Ham">>), StrVal(<<"Hyeop", "Ui">>)}
    [] key = "extraPhone1" -> {StrVal(<<"0", "1", "0", "-", "3", "3", "3", "3", "-", "4", "4", "4", "4">>)}

OldKeys == {"deposit", "contractArea", "address", "buildingUse", "specialNotes",
            "dealStatus", "keyMoneyMemo", "extraPhone1"}
NewKeys == OldKeys \cup {"dealCompletedAt", "specialNotesAppendMode"}

\* the maps with at most n of the keys
MapsOver(keys, n) ==
  UNION { {m \in [K -> UNION {FieldValues(k) : k \in K}] :
             \A k \in K : m[k] \in FieldValues(k)} :
          K \in {K \in SUBSET keys : Cardinality(K) <= n} }

InitSummary ==
  /\ old_data \in MapsOver(OldKeys, MaxFields)
  /\ new_data \in MapsOver(NewKeys, MaxFields)
  /\ summary = <<>>
  /\ BotInit
  /\ gate = <<>>
  /\ pc = "parsed"
  /\ text = <<>>
  /\ skip_address = FALSE
  /\ lines = <<>>
  /\ idx = 1
  /\ data = EmptyDict
  /\ special_notes = <<>>
  /\ in_special_section = FALSE
  /\ contact_idx = 0
  /\ in_contacts = FALSE
  /\ returned = <<>>

NextSummary == PopAppendMode \/ BuildSummary
SpecSummary == InitSummary /\ [][NextSummary]_vars

(***************************************************************************)
(* The gate of the handlers: _is_listing_format on a received text         *)
(* (lines 2383, 2970, 3051, 3507).                                         *)
(***************************************************************************)
CheckFormat ==
  /\ pc = "received"
  /\ \E is_update \in BOOLEAN :
       /\ gate' = [is_update |-> is_update, ok |-> _is_listing_format(text, is_update)]
       /\ pc' = IF _is_listing_format(text, is_update) THEN "accepted" ELSE "rejected"
  /\ UNCHANGED <<bot, old_data, new_data, summary, text, skip_address, locals, returned>>

\* texts around the length thresholds, with and without a section marker
ShortTexts ==
  { <<<<>>>>, <<<<"1", ".">>>>, <<<<"1", ".", " ", "5">>>>, <<<<"3", ".", "3", "0", "0", "0">>>>, <<<<" ", " ", "3", ".", "3", " ", " ">>>>,
    <<<<"a", "b", "c">>>>, <<<<"a", "b", "c", "d", "e", "f", "g", "h", "i", "j", "k", "l">>>>, <<<<"9", ".", " ", "a", "b", "c", "d", "e", "f", "g", "h", "i", "j">>>>, <<<<"0", ".", " ", "a", "b", "c", "d", "e", "f", "g", "h", "i", "j">>>>,
    <<<<"Teuk", "I_", "Sa", "Hang">>>>, <<<<"Teuk", "I_">>>>, <<<<"Teuk", "I_", "Sa", "Hang", " ", "Me", "Mo", " ", "Chu", "Ga", " ", "Nae", "Yong">>>>,
    <<<<"Me", "Mo">>, <<"1", ".">>>>, <<<<"Seo", "Gu", " ", "1", "2">>, <<"2", ".">>>>, <<<<"Seo", "Gu", " ", "1", "2", "3">>, <<"2", ".">>>>,
    <<<<"1">>, <<".", " ", "5", "0", "0", "0", "/", "4", "0", " ", "Bu", "Byeol">>>>, <<<<>>, <<" ", " ", "8", ".", " ", " ">>, <<>>>> }

InitGate ==
  /\ text \in Inputs \cup ShortTexts
  /\ gate = <<>>
  /\ pc = "received"
  /\ skip_address = FALSE
  /\ lines = <<>>
  /\ idx = 1
  /\ data = EmptyDict
  /\ special_notes = <<>>
  /\ in_special_section = FALSE
  /\ contact_idx = 0
  /\ in_contacts = FALSE
  /\ returned = <<>>
  /\ old_data = EmptyDict
  /\ new_data = EmptyDict
  /\ summary = <<>>
  /\ BotInit

NextGate == CheckFormat
SpecGate == InitGate /\ [][NextGate]_vars

(***************************************************************************)
(* Section-1 lines whose amounts are made of a few tokens.                 *)
(***************************************************************************)
\* the most tokens of an amount
MaxTokens == 3

AmountTokens ==
  { <<"1">>, <<"5">>, <<"0">>, <<"Eok">>, <<"Cheon">>, <<"Baek">>, <<"Man">>, <<"Won">>, <<" ">> }
RECURSIVE Concat(_)
Concat(ss) == IF ss = <<>> THEN <<>> ELSE Head(ss) \o Concat(Tail(ss))
Amounts == {Concat(ts) : ts \in SeqsOf(AmountTokens, 1, MaxTokens)}
PriceTexts ==
  { <<<<"1", ".", " ">> \o a \o <<"/", "1">>>> : a \in Amounts } \cup { <<<<"1", ".", " ", "1", "/">> \o a>> : a \in Amounts }

InitPrice == InitWith(PriceTexts)
NextPrice == Start \/ Section1 \/ Return
SpecPrice == InitPrice /\ [][NextPrice]_vars

(***************************************************************************)
(* _merge_section4_lines on a text of a few lines (line 52).               *)
(***************************************************************************)
\* a call of the static method on the text as it is
Merge ==
  /\ pc = "unmerged"
  /\ lines' = _merge_section4_lines(text)
  /\ pc' = "merged"
  /\ UNCHANGED <<edit, text, skip_address, idx, data, special_notes,
                 in_special_section, contact_idx, in_contacts, returned>>

\* the most lines of a text
MaxMergeLines == 3

MergeLines ==
  { <<>>, <<"4", ".", " ", "1", "Cheung", " ", "1", "Jong", "Geun", "Saeng">>, <<" ", "4", ".", " ", "2", "Cheung", " ">>, <<"2", "Cheung", " ", "5", "0", "/", "5", "0">>, <<" ", "1", "Cheung", " ", "4", "0", "/", "3", "3", ".", "5", " ">>,
    <<"Me", "Mo">>, <<"5", ".", " ", "Ju", "Cha", " ", "2", "Cheung">>, <<"4", "0", ".", " ", "3", "/", "4">> }
MergeTexts == SeqsOf(MergeLines, 1, MaxMergeLines)

InitMerge ==
  /\ text \in MergeTexts
  /\ pc = "unmerged"
  /\ skip_address = FALSE
  /\ lines = <<>>
  /\ idx = 1
  /\ data = EmptyDict
  /\ special_notes = <<>>
  /\ in_special_section = FALSE
  /\ contact_idx = 0
  /\ in_contacts = FALSE
  /\ returned = <<>>
  /\ old_data = EmptyDict
  /\ new_data = EmptyDict
  /\ summary = <<>>
  /\ BotInit
  /\ gate = <<>>

NextMerge == Merge
SpecMerge == InitMerge /\ [][NextMerge]_vars

(***************************************************************************)
(* The photo buffer and the delayed save of a listing (lines 2030-2188).   *)
(* A task is a coroutine at one of its awaits: a save task is "sleeping"   *)
(* (line 2149), "checking" (line 2153) or "saving" (line 2185); an expiry  *)
(* task is "sleeping" (line 2107).  A listing message is named by the      *)
(* number of its save task.                                                *)
(***************************************************************************)
\* the most photo messages and the most listing messages
MaxPhotos == 2
MaxListings == 2

Listings == {t \in DOMAIN tasks : tasks[t].kind = "save"}

\* task.cancel(): CancelledError at the await the task is at; nothing for a
\* task that has ended
Cancel(ts, t) ==
  IF t # 0 /\ ts[t].state \in {"sleeping", "checking", "saving"}
  THEN [ts EXCEPT ![t].state = "cancelled"] ELSE ts

\* asyncio.create_task
CreateTask(ts, kind, chat_id) ==
  Append(ts, [kind |-> kind, chat_id |-> chat_id, state |-> "sleeping"])

\* a faulty _schedule_property_save: the task of the earlier description is
\* not cancelled
ScheduleWithoutCancel(ts, chat_id) == CreateTask(ts, "save", chat_id)

\* _schedule_property_save (lines 2128-2135): the tasks after it; the new task
\* is the last one
_schedule_property_save(ts, chat_id) ==
  CreateTask(Cancel(ts, _save_tasks[chat_id]), "save", chat_id)

\* _add_photos_to_buffer (lines 2049-2067): the tasks after it
_add_photos_to_buffer(ts, chat_id) ==
  CreateTask(Cancel(ts, _collect_tasks[chat_id]), "expire", chat_id)

\* a photo message without a reply (lines 2962-2973, 3048-3055): the photo goes
\* into the buffer of the chat, and a caption in listing format schedules the
\* save
PhotoMessage(chat_id) ==
  /\ pc = "bot"
  /\ photos_sent < MaxPhotos
  /\ photos_sent' = photos_sent + 1
  /\ _chat_buffers' = [_chat_buffers EXCEPT ![chat_id] = Append(@, photos_sent + 1)]
  /\ \E caption \in BOOLEAN :
       /\ caption => Cardinality(Listings) < MaxListings
       /\ LET added == _add_photos_to_buffer(tasks, chat_id)
          IN /\ _collect_tasks' = [_collect_tasks EXCEPT ![chat_id] = Len(added)]
             /\ tasks' = IF caption THEN _schedule_property_save(added, chat_id)
                         ELSE added
             /\ _save_tasks' = IF caption
                               THEN [_save_tasks EXCEPT ![chat_id] = Len(added) + 1]
                               ELSE _save_tasks
  /\ UNCHANGED <<saved, deleted, old_data, new_data, summary, gate, text,
                 skip_address, locals, pc, returned>>

\* a text message in listing format (lines 3507-3512)
ListingMessage(chat_id) ==
  /\ pc = "bot"
  /\ Cardinality(Listings) < MaxListings
  /\ tasks' = _schedule_property_save(tasks, chat_id)
  /\ _save_tasks' = [_save_tasks EXCEPT ![chat_id] = Len(tasks) + 1]
  /\ UNCHANGED <<_chat_buffers, _collect_tasks, saved, deleted, photos_sent,
                 old_data, new_data, summary, gate, text, skip_address, locals,
                 pc, returned>>

\* a user deletes a listing message in Telegram
DeleteMessage(t) ==
  /\ pc = "bot"
  /\ t \in Listings \ deleted
  /\ deleted' = deleted \cup {t}
  /\ UNCHANGED <<_chat_buffers, _collect_tasks, _save_tasks, tasks, saved,
                 photos_sent, old_data, new_data, summary, gate, text,
                 skip_address, locals, pc, returned>>

\* _expire_chat_buffer after its sleep (lines 2107-2110)
ExpireTimer(t) ==
  /\ pc = "bot"
  /\ t \in DOMAIN tasks /\ tasks[t].kind = "expire" /\ tasks[t].state = "sleeping"
  /\ _chat_buffers' = [_chat_buffers EXCEPT ![tasks[t].chat_id] = <<>>]
  /\ _collect_tasks' = [_collect_tasks EXCEPT ![tasks[t].chat_id] = 0]
  /\ tasks' = [tasks EXCEPT ![t].state = "done"]
  /\ UNCHANGED <<_save_tasks, saved, deleted, photos_sent, old_data, new_data,
                 summary, gate, text, skip_address, locals, pc, returned>>

\* _do_save_with_buffer after its sleep (lines 2149-2153), up to the await of
\* _check_message_exists
SaveTimer(t) ==
  /\ pc = "bot"
  /\ t \in Listings /\ tasks[t].state = "sleeping"
  /\ _save_tasks' = [_save_tasks EXCEPT ![tasks[t].chat_id] = 0]
  /\ tasks' = [tasks EXCEPT ![t].state = "checking"]
  /\ UNCHANGED <<_chat_buffers, _collect_tasks, saved, deleted, photos_sent,
                 old_data, new_data, summary, gate, text, skip_address, locals,
                 pc, returned>>

\* _check_message_exists (lines 3065-3097): False for a deleted message, True
\* for one that exists and whenever the answer of Telegram is not understood
_check_message_exists(t) == IF t \in deleted THEN {FALSE, TRUE} ELSE {TRUE}

\* _clear_chat_buffer (lines 2112-2117): the tasks after it
_clear_chat_buffer(ts, chat_id) == Cancel(ts, _collect_tasks[chat_id])

\* a faulty CheckAnswer: the buffer is not cleared when the save starts
CheckAnswerKeepsBuffer(t) ==
  /\ pc = "bot"
  /\ t \in Listings /\ tasks[t].state = "checking"
  /\ \E exists \in _check_message_exists(t) :
       IF ~exists
       THEN /\ tasks' = [_clear_chat_buffer(tasks, tasks[t].chat_id)
                           EXCEPT ![t].state = "rejected"]
            /\ _chat_buffers' = [_chat_buffers EXCEPT ![tasks[t].chat_id] = <<>>]
            /\ _collect_tasks' = [_collect_tasks EXCEPT ![tasks[t].chat_id] = 0]
            /\ saved' = saved
       ELSE /\ saved' = Append(saved, [description |-> t,
                                       photo_urls |-> _chat_buffers[tasks[t].chat_id]])
            /\ tasks' = [tasks EXCEPT ![t].state = "saving"]
            /\ UNCHANGED <<_chat_buffers, _collect_tasks>>
  /\ UNCHANGED <<_save_tasks, deleted, photos_sent, old_data, new_data, summary,
                 gate, text, skip_address, locals, pc, returned>>

\* _do_save_with_buffer from the answer of _check_message_exists to the await
\* of _save_property_to_notion (lines 2156-2188): no await in between
CheckAnswer(t) ==
  /\ pc = "bot"
  /\ t \in Listings /\ tasks[t].state = "checking"
  /\ \E exists \in _check_message_exists(t) :
       /\ tasks' = [_clear_chat_buffer(tasks, tasks[t].chat_id)
                      EXCEPT ![t].state = IF exists THEN "saving" ELSE "rejected"]
       /\ saved' = IF exists
                   THEN Append(saved, [description |-> t,
                                       photo_urls |-> _chat_buffers[tasks[t].chat_id]])
                   ELSE saved
  /\ _chat_buffers' = [_chat_buffers EXCEPT ![tasks[t].chat_id] = <<>>]
  /\ _collect_tasks' = [_collect_tasks EXCEPT ![tasks[t].chat_id] = 0]
  /\ UNCHANGED <<_save_tasks, deleted, photos_sent, old_data, new_data, summary,
                 gate, text, skip_address, locals, pc, returned>>

\* _save_property_to_notion returns and the task ends (line 2188)
SaveDone(t) ==
  /\ pc = "bot"
  /\ t \in Listings /\ tasks[t].state = "saving"
  /\ tasks' = [tasks EXCEPT ![t].state = "done"]
  /\ UNCHANGED <<_chat_buffers, _collect_tasks, _save_tasks, saved, deleted,
                 photos_sent, old_data, new_data, summary, gate, text,
                 skip_address, locals, pc, returned>>

InitSave ==
  /\ BotInit
  /\ pc = "bot"
  /\ text = <<>>
  /\ skip_address = FALSE
  /\ lines = <<>>
  /\ idx = 1
  /\ data = EmptyDict
  /\ special_notes = <<>>
  /\ in_special_section = FALSE
  /\ contact_idx = 0
  /\ in_contacts = FALSE
  /\ returned = <<>>
  /\ old_data = EmptyDict
  /\ new_data = EmptyDict
  /\ summary = <<>>
  /\ gate = <<>>

NextSave ==
  \/ \E c \in Chats : PhotoMessage(c)
  \/ \E c \in Chats : ListingMessage(c)
  \/ \E t \in DOMAIN tasks : DeleteMessage(t)
  \/ \E t \in DOMAIN tasks : ExpireTimer(t)
  \/ \E t \in DOMAIN tasks : SaveTimer(t)
  \/ \E t \in DOMAIN tasks : CheckAnswer(t)
  \/ \E t \in DOMAIN tasks : SaveDone(t)
SpecSave == InitSave /\ [][NextSave]_vars

(***************************************************************************)
(* The properties of the parser.                                           *)
(***************************************************************************)

\* C1: once the parser is in special-notes mode it stays in it for every
\* remaining line, and every later non-empty line is appended in full
\* (trimmed, otherwise verbatim) as exactly one note line.
C1_NotesVerbatim ==
  [][(InLoop /\ in_special_section /\ Line # <<>>)
       => /\ in_special_section'
          /\ special_notes' = Append(special_notes, Line)]_vars

ContactPhoneKeys == {"contactPhone", "extraPhone1", "extraPhone2"}
\* the phone number of a contact entry, or <<>>
C2_PhoneOf(entry) == GroupOr(entry, Search(PhoneRe, entry))
\* the phone of slot k is as it was, or that of one of the first three entries
C2_FromFirstThree(entries, before, after, k) ==
  \/ Has(before, k) /\ after[k] = before[k]
  \/ \E i \in 1..3 : /\ i <= Len(entries)
                     /\ k = PhoneKey(i - 1)
                     /\ after[k] = C2_PhoneOf(entries[i])
\* C2: the record holds at most 3 contacts; an '8.' line stores the phones of
\* its first 3 entries by position and drops a 4th entry without error; a
\* continuation line is stored only while fewer than 3 contacts are held.
C2_ContactCap ==
  [][/\ Cardinality(DOMAIN data' \cap ContactPhoneKeys) <= 3
     /\ (InLoop /\ Branch(Line) = "8")
          => /\ pc' = "loop"
             /\ \A i \in 1..Len(ContactEntries(Line)) :
                  (i <= 3 /\ C2_PhoneOf(ContactEntries(Line)[i]) # <<>>)
                    => /\ Has(data', PhoneKey(i - 1))
                       /\ data'[PhoneKey(i - 1)] = C2_PhoneOf(ContactEntries(Line)[i])
             /\ \A k \in DOMAIN data' \cap ContactPhoneKeys :
                  C2_FromFirstThree(ContactEntries(Line), data, data', k)
     /\ (InLoop /\ Branch(Line) = "contact" /\ data' # data)
          => /\ contact_idx < 3
             /\ data'[PhoneKey(contact_idx)] = C2_PhoneOf(Line)
             /\ \A k \in DOMAIN data' \cap ContactPhoneKeys :
                  k # PhoneKey(contact_idx) => Has(data, k) /\ data'[k] = data[k]]_vars
\* an '8.' line with 4 entries has been parsed, and 3 contacts are held
C2_FourEntries ==
  /\ pc = "done"
  /\ \E i \in DOMAIN lines :
       /\ StartsWith(Strip(lines[i]), <<"8", ".">>)
       /\ Len(ContactEntries(Strip(lines[i]))) = 4
       /\ \A j \in 1..4 : C2_PhoneOf(ContactEntries(Strip(lines[i]))[j]) # <<>>
  /\ ContactPhoneKeys \subseteq DOMAIN data

\* C3, as amended: a returned record that has perFloorUse has buildingUse (it
\* may have buildingUse alone).
C3_PerFloorUseHasBuildingUse ==
  pc = "done" => (Has(data, "perFloorUse") => Has(data, "buildingUse"))
\* a record with both fields has been returned
C3_BothUses ==
  pc = "done" /\ Has(data, "perFloorUse") /\ Has(data, "buildingUse")
\* C3, as stated: a returned record has buildingUse if and only if it has
\* perFloorUse.
C3_Jointly ==
  pc = "done" => (Has(data, "buildingUse") <=> Has(data, "perFloorUse"))

\* C4: two calls with the same text and the same skip_address return the same
\* record, whatever was parsed before or between them.
C4_Deterministic ==
  \A i, j \in DOMAIN returned :
    (returned[i].text = returned[j].text
       /\ returned[i].skip_address = returned[j].skip_address)
      => returned[i].ok = returned[j].ok /\ returned[i].data = returned[j].data
\* the same text was parsed twice, with another text in between
C4_SameTextTwice ==
  /\ Len(returned) = 3
  /\ returned[1].text = returned[3].text
  /\ returned[1].skip_address = returned[3].skip_address
  /\ returned[2].text # returned[1].text
  /\ Has(returned[1].data, "specialNotes")
  /\ DOMAIN returned[2].data # {}

\* C5: parse_property_info never raises: whatever the text and skip_address,
\* the call goes on to the last line and returns a record.
C5_NeverRaises == pc # "raised"

\* the callers' gate accepts the text, as a new listing or as an update
C6_Accepted == _is_listing_format(text, FALSE) \/ _is_listing_format(text, TRUE)
\* C6: for a text that the gate _is_listing_format accepts, the returned record
\* has no negative keyMoney, contractArea or exclusiveArea: each is absent or
\* a number >= 0.
C6_NonNegative ==
  (pc = "done" /\ C6_Accepted)
    => \A k \in {"keyMoney", "contractArea", "exclusiveArea"} :
         Has(data, k) => data[k] >= 0
\* an accepted text with a hyphen before a digit has given an amount
C6_AcceptedAmount ==
  /\ pc = "done" /\ C6_Accepted
  /\ \E i \in DOMAIN text : Found(Cat(<<Lit(<<"-">>), Cls(Digit)>>), text[i])
  /\ \E k \in {"keyMoney", "contractArea", "exclusiveArea"} : Has(data, k)

\* the VAT keyword of a section-1 line, the first of 'separate', 'none' and
\* 'VAT/confirm' that matches, or <<>>
C7_Keyword(line) ==
  IF Found(VatSeparateRe, line) THEN <<"Byeol", "Do">>
  ELSE IF Found(VatNoneRe, line) THEN <<"Eops", "Eum">>
  ELSE IF Found(VatCheckRe, line) THEN <<"Hwak", "In", "Pil", "Yo">>
  ELSE <<>>
\* key k is in both records with one value, or in neither
Same(before, after, k) ==
  /\ Has(after, k) <=> Has(before, k)
  /\ Has(before, k) => after[k] = before[k]
\* C7: a section-1 line sets vatStatus to Separate, else None, else NeedsCheck
\* by the first keyword that matches; with no keyword it sets NeedsCheck when
\* skip_address is False and leaves vatStatus as it was when skip_address is
\* True.
C7_VatStatus ==
  [][(InLoop /\ Branch(Line) = "1")
       => IF C7_Keyword(Line) # <<>>
          THEN Has(data', "vatStatus") /\ data'["vatStatus"] = C7_Keyword(Line)
          ELSE IF ~skip_address
          THEN Has(data', "vatStatus") /\ data'["vatStatus"] = <<"Hwak", "In", "Pil", "Yo">>
          ELSE Same(data, data', "vatStatus")]_vars
\* an update has parsed a price without a VAT keyword
C7_UpdateWithoutKeyword ==
  /\ pc = "done" /\ skip_address
  /\ Has(data, "deposit") /\ ~Has(data, "vatStatus")

\* the first line of the text: text.strip().split("\n")[0].strip()
C8_FirstLine == Strip(TextStrip(text)[1])
\* C8: with skip_address=True the record has no address, propertyKind,
\* district or isPartialUnit; with skip_address=False the first line is stored
\* as the address and is not read as a numbered section.
C8_AddressFrame ==
  pc = "done"
    => IF skip_address
       THEN DOMAIN data \cap {"address", "propertyKind", "district", "isPartialUnit"} = {}
       ELSE Has(data, "address") /\ data["address"] = C8_FirstLine

\* C9: after a section-5 line whose content holds a parking negation (주차X,
\* 주차 불가, 주차 안 됨) the record has parkingStatus = Impossible and no
\* parkingMemo.
C9_NegatedContent ==
  [][(InLoop /\ Branch(Line) = "5"
        /\ Found(NoParkingRe, SectionContent("5", Line)))
       => /\ Has(data', "parkingStatus")
          /\ data'["parkingStatus"] = <<"Bul", "Ga", "Neung">>
          /\ ~Has(data', "parkingMemo")]_vars

\* the remainder of a section-3 line, its parenthetical and what is left of it
\* without the no-key-money keywords
C10_Remainder(line) == Strip(Sub(RightsPrefixRe, <<>>, SectionContent("3", line)))
C10_Parenthetical(r) == ParenMemo(r, Search(RightsParenRe, r))
C10_Leftover(r) ==
  Strip(Sub(LeadingCommaRe, <<>>, Strip(Sub(NoRightsRe, <<>>, r))))
C10_Memo(r) ==
  IF C10_Parenthetical(r) # <<>> THEN C10_Parenthetical(r)
  ELSE IF C10_Leftover(r) # <<>> THEN C10_Leftover(r)
  ELSE <<"Mu", "Gwon", "Ri">>
C11_Clean(line) == Strip(Sub(RightsParenRe, <<>>, C10_Remainder(line)))
\* the length of the longest prefix of digits
C11_DigitsLen(s) == Max({n \in 0..Len(s) : \A i \in 1..n : s[i] \in Digit})
\* the text after the number, without a leading unit word
C11_AfterNumber(s) ==
  Strip(Sub(LeadingManWonRe, <<>>, Strip(SubSeq(s, C11_DigitsLen(s) + 1, Len(s)))))
\* C11: a section-3 line whose remainder, the parenthetical removed, starts
\* with digits gives keyMoney = that number and keyMoneyMemo = the
\* parenthetical, else the text after the number without a leading 만/만원,
\* else no memo of its own; '3. 3000(사무실용)' gives 3000 and '사무실용'.
C11_NumericKeyMoney ==
  [][(InLoop /\ Branch(Line) = "3" /\ C11_DigitsLen(C11_Clean(Line)) > 0)
       => /\ Has(data', "keyMoney")
          /\ data'["keyMoney"]
               = ToInt(SubSeq(C11_Clean(Line), 1, C11_DigitsLen(C11_Clean(Line))))
          /\ IF C10_Parenthetical(C10_Remainder(Line)) # <<>>
             THEN /\ Has(data', "keyMoneyMemo")
                  /\ data'["keyMoneyMemo"] = C10_Parenthetical(C10_Remainder(Line))
             ELSE IF C11_AfterNumber(C11_Clean(Line)) # <<>>
             THEN /\ Has(data', "keyMoneyMemo")
                  /\ data'["keyMoneyMemo"] = C11_AfterNumber(C11_Clean(Line))
             ELSE Same(data, data', "keyMoneyMemo")
          /\ Line = <<"3", ".", " ", "3", "0", "0", "0", "(", "Sa", "Mu", "Sil", "Yong", ")">>
               => data'["keyMoney"] = 3000 /\ data'["keyMoneyMemo"] = <<"Sa", "Mu", "Sil", "Yong">>]_vars
\* '3. 3000(사무실용)' has been parsed
C11_AmountWithParenthetical ==
  /\ pc = "done"
  /\ \E i \in DOMAIN lines : i > 1 /\ Strip(lines[i]) = <<"3", ".", " ", "3", "0", "0", "0", "(", "Sa", "Mu", "Sil", "Yong", ")">>
  /\ Has(data, "keyMoney") /\ data["keyMoney"] = 3000
  /\ Has(data, "keyMoneyMemo") /\ data["keyMoneyMemo"] = <<"Sa", "Mu", "Sil", "Yong">>

\* the floors that the two per-floor patterns capture in a section-4 content
C12_Floors(c) ==
  {Group(c, m, 1) : m \in Range(FindAll(FloorAreaRe, c)) \cup Range(FindAll(FloorDetailRe, c))}
\* the matches of a pattern for floor f, by position
C12_Of(c, ms, f) == {i \in DOMAIN ms : Group(c, ms[i], 1) = f}
\* the area (group g) of floor f: that of its last match of the area pattern,
\* else that of its first match of the detail pattern
C12_Area(c, f, g) ==
  IF C12_Of(c, FindAll(FloorAreaRe, c), f) # {}
  THEN ParseFloat(Group(c, FindAll(FloorAreaRe, c)[Max(C12_Of(c, FindAll(FloorAreaRe, c), f))], g))
  ELSE ParseFloat(Group(c, FindAll(FloorDetailRe, c)[Min(C12_Of(c, FindAll(FloorDetailRe, c), f))], g))
RECURSIVE C12_Sum(_, _, _)
C12_Sum(c, floors, g) ==
  IF floors = {} THEN 0
  ELSE FloatAdd(C12_Area(c, CHOOSE f \in floors : TRUE, g),
                C12_Sum(c, floors \ {CHOOSE f \in floors : TRUE}, g))
\* C12: when a section-4 line yields per-floor areas, contractArea and
\* exclusiveArea are the sums of the floors' contract and exclusive areas and
\* not what the single-property patterns would give; the line
\* '4. 1층 1종근생 2층 2종근생 1층 40/40 2층 50/50' gives 90, 90 and the two
\* neighbourhood uses as buildingUse.
C12_FloorSums ==
  [][(InLoop /\ Branch(Line) = "4" /\ pc' # "raised"
        /\ C12_Floors(SectionContent("4", Line)) # {})
       => /\ Has(data', "contractArea") /\ Has(data', "exclusiveArea")
          /\ data'["contractArea"]
               = C12_Sum(SectionContent("4", Line), C12_Floors(SectionContent("4", Line)), 2)
          /\ data'["exclusiveArea"]
               = C12_Sum(SectionContent("4", Line), C12_Floors(SectionContent("4", Line)), 3)
          /\ Line = <<"4", ".", " ", "1", "Cheung", " ", "1", "Jong", "Geun", "Saeng", " ", "2", "Cheung", " ", "2", "Jong", "Geun", "Saeng", " ", "1", "Cheung", " ", "4", "0", "/", "4", "0", " ", "2", "Cheung", " ", "5", "0", "/", "5", "0">>
               => /\ data'["contractArea"] = 90 * FloatScale
                  /\ data'["exclusiveArea"] = 90 * FloatScale
                  /\ Has(data', "buildingUse")
                  /\ data'["buildingUse"] = <<<<"Je", "1", "Jong", "Geun", "Rin", "Saeng", "Hwal", "Si", "Seol">>, <<"Je", "2", "Jong", "Geun", "Rin", "Saeng", "Hwal", "Si", "Seol">>>>]_vars
\* the two-floor line has been parsed and its areas are the sums
C12_TwoFloors ==
  /\ pc = "done"
  /\ \E i \in DOMAIN lines :
       i > 1 /\ Strip(lines[i]) = <<"4", ".", " ", "1", "Cheung", " ", "1", "Jong", "Geun", "Saeng", " ", "2", "Cheung", " ", "2", "Jong", "Geun", "Saeng", " ", "1", "Cheung", " ", "4", "0", "/", "4", "0", " ", "2", "Cheung", " ", "5", "0", "/", "5", "0">>
  /\ Has(data, "contractArea") /\ data["contractArea"] = 90 * FloatScale
  /\ Has(data, "perFloorUse")

\* the fields that _build_update_summary looks at
C13_Tracked ==
  {field_names[i][1] : i \in DOMAIN field_names} \cup {"dealStatus", "specialNotes"}
\* old_data and new_data are identical on every tracked field
C13_Identical ==
  \A k \in C13_Tracked :
    /\ Has(old_data, k) <=> Has(new_data, k)
    /\ Has(old_data, k) => SameValue(old_data[k], new_data[k])
\* C13: when the old and the new map are identical on every tracked field
\* the summary is exactly the fallback '내용수정', and the fallback is what is
\* returned whenever no field gave a fragment.
C13_NoChange ==
  pc = "summarized"
    => /\ C13_Identical => summary = <<"Nae", "Yong", "Su", "Jeong">>
       /\ Changes(old_data, new_data) = <<>> => summary = <<"Nae", "Yong", "Su", "Jeong">>
\* the summary of two identical maps with two tracked fields
C13_SameMaps ==
  /\ pc = "summarized"
  /\ old_data = new_data
  /\ Cardinality(DOMAIN new_data \cap C13_Tracked) = 2
  /\ summary = <<"Nae", "Yong", "Su", "Jeong">>

\* how an old number is shown: a float that is whole as the integer
C14_Shown(v) ==
  IF v.t = "int" THEN ToStr(v.v)
  ELSE IF v.v % FloatScale = 0 THEN ToStr(v.v \div FloatScale)
  ELSE FloatStr(v.v)
\* C14: for a tracked field whose old and new values are both numbers the
\* summary has the fragment label old→new if and only if the two are
\* numerically unequal, an old float that is whole being shown as the
\* integer: old 2000.0 and new 2500 give '2000→2500'.
C14_NumberFragment ==
  pc = "summarized"
    => \A i \in DOMAIN field_names :
         (Has(old_data, field_names[i][1]) /\ Has(new_data, field_names[i][1])
            /\ IsNumber(old_data[field_names[i][1]])
            /\ IsNumber(new_data[field_names[i][1]]))
           => LET old == old_data[field_names[i][1]]
                  new == new_data[field_names[i][1]]
                  label == field_names[i][2]
              IN /\ IF NumberOf(old) # NumberOf(new)
                    THEN Contains(summary, label \o C14_Shown(old) \o <<"->">> \o StrOf(new))
                    ELSE ~Contains(summary, label)
                 /\ (old = FloatVal(2000 * FloatScale) /\ new = IntVal(2500))
                      => Contains(summary, label \o <<"2", "0", "0", "0", "->", "2", "5", "0", "0">>)
\* old 2000.0 and new 2500 have been summarised
C14_WholeFloat ==
  /\ pc = "summarized"
  /\ Has(old_data, "deposit") /\ old_data["deposit"] = FloatVal(2000 * FloatScale)
  /\ Has(new_data, "deposit") /\ new_data["deposit"] = IntVal(2500)
  /\ summary = <<"Bo", "Jeung", "Geum", "2", "0", "0", "0", "->", "2", "5", "0", "0">>

\* the notes of new_data differ from those of old_data
C15_NotesDiffer ==
  /\ Has(new_data, "specialNotes")
  /\ StrOf(GetOr(old_data, "specialNotes", StrVal(<<>>))) # StrOf(new_data["specialNotes"])
\* C15, as amended: when the notes are in new and differ from the old notes
\* the summary has the marker '특이사항수정' for them and never the note text,
\* in append mode as well; without such a difference it has no marker.
C15_NotesMarker ==
  pc = "summarized"
    => IF C15_NotesDiffer
       THEN /\ Contains(summary, <<"Teuk", "I_", "Sa", "Hang", "Su", "Jeong">>)
            /\ ~Contains(summary, StrOf(new_data["specialNotes"]))
            /\ summary = Join(Changes(old_data, Pop(new_data, "specialNotes"))
                                \o <<<<"Teuk", "I_", "Sa", "Hang", "Su", "Jeong">>>>, <<",", " ">>)
       ELSE ~Contains(summary, <<"Teuk", "I_", "Sa", "Hang", "Su", "Jeong">>)
\* changed notes have been summarised in append mode
C15_AppendMode ==
  /\ pc = "summarized"
  /\ Has(new_data, "specialNotesAppendMode") /\ C15_NotesDiffer
  /\ summary = <<"Teuk", "I_", "Sa", "Hang", "Su", "Jeong">>
\* C15, as stated: changed notes give the marker 'notes-updated' (특이사항수정)
\* normally and another marker, 'notes-appended', when the new record is in
\* append mode.
C15_AppendedMarker ==
  (pc = "summarized" /\ C15_NotesDiffer)
    => IF Has(new_data, "specialNotesAppendMode")
       THEN ~Contains(summary, <<"Teuk", "I_", "Sa", "Hang", "Su", "Jeong">>)
       ELSE Contains(summary, <<"Teuk", "I_", "Sa", "Hang", "Su", "Jeong">>)

\* the received text as one string, and the positions of its characters that
\* are not white space
C16_Flat == Join(text, <<"\n">>)
C16_Inked == {i \in DOMAIN C16_Flat : C16_Flat[i] \notin Space \cup {"\n"}}
\* the text without the white space at its two ends
C16_Trimmed ==
  IF C16_Inked = {} THEN <<>> ELSE SubSeq(C16_Flat, Min(C16_Inked), Max(C16_Inked))
\* the text has a numbered-section marker '1.' to '8.'
C16_Marker ==
  \E i \in 1..(Len(C16_Trimmed) - 1) :
    C16_Trimmed[i] \in {"1", "2", "3", "4", "5", "6", "7", "8"} /\ C16_Trimmed[i + 1] = "."
C16_Threshold == IF gate.is_update THEN 3 ELSE 10
\* C16, as amended: the gate rejects every text whose trimmed length is below
\* the threshold (10, or 3 in update mode) and every text without a marker
\* '1.' to '8.', except that in update mode a text without marker that holds
\* the keyword '특이사항' is accepted; every other text is accepted.
C16_Gate ==
  gate # <<>>
    => (gate.ok <=> /\ Len(C16_Trimmed) >= C16_Threshold
                    /\ \/ C16_Marker
                       \/ gate.is_update /\ Contains(C16_Trimmed, Keyword))
\* an update without a section marker has been accepted for its keyword
C16_KeywordUpdate ==
  /\ gate # <<>> /\ gate.is_update /\ gate.ok
  /\ ~C16_Marker
\* C16, as stated: the gate rejects every text whose trimmed length is below
\* the threshold and, in both modes, every text without a marker '1.' to '8.'.
C16_MarkerInBothModes ==
  gate # <<>>
    => ((Len(C16_Trimmed) < C16_Threshold \/ ~C16_Marker) => ~gate.ok)

\* the last position before p that holds no white space, or 0
C17_Before(s, p) == Max({q \in 1..(p - 1) : s[q] \notin Space} \cup {0})
\* position p holds the unit u after a number
C17_UnitAt(s, p, u) ==
  s[p] = u /\ C17_Before(s, p) > 0 /\ s[C17_Before(s, p)] \in Digit
\* the start of the run of digits that ends at q
C17_RunStart(s, q) == Min({r \in 1..q : \A i \in r..q : s[i] \in Digit})
\* the number before the first unit u of s, or 0 when there is none
C17_Units(s, u) ==
  IF \E p \in DOMAIN s : C17_UnitAt(s, p, u)
  THEN LET q == C17_Before(s, Min({p \in DOMAIN s : C17_UnitAt(s, p, u)}))
       IN ToInt(SubSeq(s, C17_RunStart(s, q), q))
  ELSE 0
\* the positions of s that are no part of a unit token, 만, 원 or white space
C17_Kept(s) ==
  {i \in DOMAIN s :
     /\ s[i] \notin {"Man", "Won"} \cup Space
     /\ ~\E p \in DOMAIN s, u \in {"Eok", "Cheon", "Baek"} :
           /\ C17_UnitAt(s, p, u)
           /\ C17_RunStart(s, C17_Before(s, p)) <= i /\ i <= p}
\* the characters of s at the positions K, in order
C17_Restrict(s, K) ==
  [k \in 1..Cardinality(K) |-> s[CHOOSE i \in K : Cardinality({j \in K : j <= i}) = k]]
\* the first integer of s: <<n>>, or <<>> when s has no digit
C17_FirstInt(s) ==
  IF \E i \in DOMAIN s : s[i] \in Digit
  THEN LET a == Min({i \in DOMAIN s : s[i] \in Digit})
           b == Max({j \in a..Len(s) : \A i \in a..j : s[i] \in Digit})
       IN <<ToInt(SubSeq(s, a, b))>>
  ELSE <<>>
\* what the claim gives for an amount s
C17_Number(s) ==
  LET left == C17_FirstInt(C17_Restrict(s, C17_Kept(s)))
  IN IF \E p \in DOMAIN s, u \in {"Eok", "Cheon", "Baek"} : C17_UnitAt(s, p, u)
     THEN <<C17_Units(s, "Eok") * 10000 + C17_Units(s, "Cheon") * 1000
            + C17_Units(s, "Baek") * 100 + (IF left = <<>> THEN 0 ELSE left[1])>>
     ELSE left
\* the amount before (g = 1) or after (g = 2) the slash of a section-1 line
C17_Amount(line, g) ==
  Group(SectionContent("1", line), Search(PriceRe, SectionContent("1", line)), g)
C18_Stored(d) ==
  Cardinality({i \in 0..2 : Has(d, PhoneKey(i)) \/ Has(d, MemoKey(i))})
\* C18: in contacts mode a non-numbered line with a phone number is stored as
\* a further contact, in the next slot, whenever fewer than 3 contacts are
\* stored; any other such line ends contacts mode, starts special-notes mode
\* and is the first note.
C18_ContactLines ==
  [][(InLoop /\ Branch(Line) = "contact")
       => IF Found(PhoneRe, Line) /\ C18_Stored(data) < 3
          THEN /\ Has(data', PhoneKey(C18_Stored(data)))
               /\ data'[PhoneKey(C18_Stored(data))] = C2_PhoneOf(Line)
               /\ in_contacts' /\ ~in_special_section'
          ELSE /\ ~in_contacts' /\ in_special_section'
               /\ special_notes' = <<Line>>
               /\ data' = data]_vars

\* a line of the loop that is not blank, not numbered, and met outside
\* contacts mode and outside special-notes mode
C19_Loose == InLoop /\ Line # <<>> /\ ~IsNumbered(Line)
             /\ ~in_contacts /\ ~in_special_section
\* what the claim says of such a line: a first note exactly when the record
\* has a field, discarded otherwise
C19_Effect ==
  IF DOMAIN data # {}
  THEN in_special_section' /\ special_notes' = <<Line>> /\ data' = data
  ELSE /\ UNCHANGED <<in_special_section, in_contacts, special_notes, data>>
       /\ special_notes = <<>>
\* C19 as stated: every non-empty, non-numbered line met outside contacts mode
\* and outside special-notes mode is the first note if and only if the record
\* has a field, and is discarded otherwise.
C19_AnyLooseLine == [][C19_Loose => C19_Effect]_vars
\* C19: a non-empty, non-numbered line without the keyword, met outside
\* contacts mode and outside special-notes mode, starts special-notes mode and
\* is the first note if and only if the record has a field; with an empty
\* record it is discarded and no mode changes.
C19_StrayLine ==
  [][(C19_Loose /\ ~Contains(Line, Keyword)) => C19_Effect]_vars
\* a stray line of a record without contacts has become the first note
C19_FirstNote ==
  /\ pc = "loop" /\ idx >= 2 /\ in_special_section
  /\ special_notes = <<lines[idx - 1]>>
  /\ ~IsNumbered(lines[idx - 1]) /\ ~Contains(lines[idx - 1], Keyword)
  /\ \A i \in 1..(idx - 2) : ~(Len(lines[i]) >= 2 /\ lines[i][1] = "8" /\ lines[i][2] = ".")
  /\ DOMAIN data # {}

\* C20 as stated: a section-3 line whose remainder without the parenthetical
\* neither starts with a digit nor matches the no-key-money family leaves
\* keyMoney as it was and gives that remainder as keyMoneyMemo.
C20_CleanRemainderMemo ==
  [][(InLoop /\ Branch(Line) = "3"
        /\ C11_DigitsLen(C11_Clean(Line)) = 0
        /\ ~Found(NoRightsRe, C11_Clean(Line)))
       => /\ Same(data, data', "keyMoney")
          /\ Has(data', "keyMoneyMemo")
          /\ data'["keyMoneyMemo"] = C11_Clean(Line)]_vars
\* C20: a section-3 line whose remainder without the parenthetical does not
\* start with a digit, and whose remainder with the parenthetical does not
\* match the no-key-money family, leaves keyMoney as it was and gives the
\* whole remainder, parenthetical included, as keyMoneyMemo.
C20_RemainderMemo ==
  [][(InLoop /\ Branch(Line) = "3"
        /\ C11_DigitsLen(C11_Clean(Line)) = 0
        /\ ~Found(NoRightsRe, C10_Remainder(Line)))
       => /\ Same(data, data', "keyMoney")
          /\ Has(data', "keyMoneyMemo")
          /\ data'["keyMoneyMemo"] = C10_Remainder(Line)]_vars
\* '3. 협의(사무실용)' has been parsed
C20_TextWithParenthetical ==
  /\ pc = "done"
  /\ \E i \in DOMAIN lines : i > 1 /\ Strip(lines[i]) = <<"3", ".", " ", "Hyeop", "Ui", "(", "Sa", "Mu", "Sil", "Yong", ")">>
  /\ ~Has(data, "keyMoney")
  /\ Has(data, "keyMoneyMemo") /\ data["keyMoneyMemo"] = <<"Hyeop", "Ui", "(", "Sa", "Mu", "Sil", "Yong", ")">>

\* the merge as the claim describes it: a line joins the '4.' line while the
\* merge is on; a numbered line and the first non-numbered line without a
\* floor marker or an N/N pattern, blank or not, end it
RECURSIVE C21_From(_, _, _, _)
C21_From(ls, i, result, merging) ==
  IF i > Len(ls) THEN result
  ELSE IF StartsWith(Strip(ls[i]), <<"4", ".">>)
  THEN C21_From(ls, i + 1, Append(result, Strip(ls[i])), TRUE)
  ELSE IF merging /\ ~IsNumbered(Strip(ls[i])) /\ Found(ContinuationRe, Strip(ls[i]))
  THEN C21_From(ls, i + 1,
                [result EXCEPT ![Len(result)] = @ \o <<" ">> \o Strip(ls[i])], TRUE)
  ELSE C21_From(ls, i + 1, Append(result, ls[i]), FALSE)
\* C21: _merge_section4_lines appends a line only to the logical line that
\* begins with '4.', and only a non-numbered line with a floor marker or an
\* N/N pattern; the first non-numbered line without one, blank or not, and any
\* numbered line end the merge; every other line is output as it is, in order.
C21_MergeOntoSection4 ==
  pc = "merged" => lines = C21_From(text, 1, <<>>, FALSE)

\* the distinct uses of the floor→use pairs of a section-4 line, by first
\* occurrence
C22_Uses(line) == SeenUses(_parse_floor_uses(SectionContent("4", line)), <<>>)
\* C22: a section-4 line sets perFloorUse only when its floor→use pairs hold
\* at least 2 distinct uses, and buildingUse is then the list of the distinct
\* uses by first occurrence; with exactly one distinct use buildingUse is the
\* list of that use and the line sets no perFloorUse.
C22_DistinctUses ==
  [][(InLoop /\ Branch(Line) = "4" /\ pc' # "raised")
       => /\ Len(C22_Uses(Line)) >= 2
               => /\ Has(data', "perFloorUse") /\ Has(data', "buildingUse")
                  /\ data'["buildingUse"] = C22_Uses(Line)
          /\ Len(C22_Uses(Line)) = 1
               => /\ Has(data', "buildingUse")
                  /\ data'["buildingUse"] = C22_Uses(Line)
                  /\ Same(data, data', "perFloorUse")
          /\ Len(C22_Uses(Line)) = 0 => Same(data, data', "perFloorUse")]_vars

\* the tokens of perFloorAreaDetail
C23_Tokens(d) == SplitOn(d["perFloorAreaDetail"], " ")
\* the orders of a set of floors, each floor once
C23_Orders(floors) ==
  {fs \in [1..Cardinality(floors) -> floors] :
     \A i, j \in DOMAIN fs : i # j => fs[i] # fs[j]}
C24_Pairs(line) == _parse_floor_uses(SectionContent("4", line))
C24_Floor(pair) == ToInt(SubSeq(pair[1], 1, C11_DigitsLen(pair[1])))
\* the token of a pair: 'N층 use', the use abbreviated
C24_Token(pair) == pair[1] \o <<"Cheung", " ">> \o _abbreviate_building_use(pair[2])
\* C24: when a section-4 line names uses for two or more floors, perFloorUse
\* has one 'N층 use' token for every floor with a use, the tokens in ascending
\* order of the floors.
C24_AscendingFloors ==
  [][(InLoop /\ Branch(Line) = "4" /\ pc' # "raised" /\ Len(C24_Pairs(Line)) >= 2)
       => /\ Has(data', "perFloorUse")
          /\ \E p \in [1..Len(C24_Pairs(Line)) -> 1..Len(C24_Pairs(Line))] :
               /\ \A i, j \in DOMAIN p : i # j => p[i] # p[j]
               /\ \A i, j \in DOMAIN p :
                    i < j => C24_Floor(C24_Pairs(Line)[p[i]]) <= C24_Floor(C24_Pairs(Line)[p[j]])
               /\ data'["perFloorUse"]
                    = Join([i \in DOMAIN p |-> C24_Token(C24_Pairs(Line)[p[i]])],
                           <<" ", "/", " ">>)]_vars

\* old_data without the fields that new_data does not have
C25_OldInNew == [k \in DOMAIN old_data \cap DOMAIN new_data |-> old_data[k]]
\* the tracked fields whose label is in the summary, by their place in
\* field_names
C25_Reported == {i \in DOMAIN field_names : Contains(summary, field_names[i][2])}
\* C25: the summary has a fragment only for fields of new_data (a field that
\* is only in old_data gives nothing); the fragments are in the order of the
\* tracked list and joined by ', '; a tracked field of new_data that old_data
\* does not have gives the addition 'label:new'.
C25_FragmentsOfNew ==
  pc = "summarized"
    => /\ summary = _build_update_summary(C25_OldInNew, new_data)
       /\ \A i \in DOMAIN field_names :
            /\ ~Has(new_data, field_names[i][1]) => i \notin C25_Reported
            /\ (Has(new_data, field_names[i][1]) /\ ~Has(old_data, field_names[i][1]))
                 => Contains(summary, field_names[i][2] \o <<":">>
                                        \o _to_str(new_data[field_names[i][1]]))
       /\ \A i, j \in C25_Reported :
            i < j => IndexOf(summary, field_names[i][2]) < IndexOf(summary, field_names[j][2])
       /\ Changes(old_data, new_data) # <<>>
            => summary = Join(Changes(old_data, new_data), <<",", " ">>)
\* two added fields have been summarised, old_data holding a field that
\* new_data does not have
C25_TwoAdditions ==
  /\ pc = "summarized"
  /\ DOMAIN new_data = {"deposit", "address"}
  /\ DOMAIN old_data = {"contractArea"}
  /\ new_data["address"] = StrVal(<<"Seo", "Gu", " ", "1", "2">>) /\ new_data["deposit"] = IntVal(2500)
  /\ summary = <<"Ju", "So", ":", "Seo", "Gu", " ", "1", "2", ",", " ", "Bo", "Jeung", "Geum", ":", "2", "5", "0", "0">>

\* C26: after every processed line contacts mode and special-notes mode are
\* never both on; a line that starts special-notes mode leaves contacts mode
\* off, and contacts mode starts only while special-notes mode is off.
C26_ModesExclusive ==
  /\ [](~(in_contacts /\ in_special_section))
  /\ [][/\ (~in_special_section /\ in_special_section') => ~in_contacts'
        /\ (~in_contacts /\ in_contacts') => (~in_special_section /\ ~in_special_section')]_vars
\* a line without a phone number has ended contacts mode and started the notes
C26_NotesAfterContacts ==
  /\ pc = "loop" /\ idx >= 3
  /\ in_special_section /\ ~in_contacts
  /\ StartsWith(Strip(lines[idx - 2]), <<"8", ".">>)
  /\ ~Contains(lines[idx - 1], Keyword)
  /\ special_notes = <<Strip(lines[idx - 1])>>
  /\ Has(data, "contactPhone")

\* the fields of a record other than the notes and the append-mode flag
C27_Structured(d) == DOMAIN d \ {"specialNotes", "specialNotesAppendMode"}
\* C27: from the line that starts special-notes mode on, that line included,
\* no step changes a field of the record other than specialNotes and
\* specialNotesAppendMode, whatever section number or keyword a line carries.
C27_StructuredFieldsKept ==
  [][(in_special_section \/ in_special_section')
       => /\ C27_Structured(data') = C27_Structured(data)
          /\ \A k \in C27_Structured(data) : data'[k] = data[k]]_vars
\* '2. 실비' came after the keyword line and was not parsed as section 2
C27_SectionLineAsNote ==
  /\ pc = "done" /\ in_special_section
  /\ \E i, j \in DOMAIN lines :
       /\ i < j /\ Contains(lines[i], Keyword)
       /\ Strip(lines[j]) = <<"2", ".", " ", "Sil", "Bi">>
       /\ \A n \in 1..(i - 1) : Strip(lines[n]) # <<"2", ".", " ", "Sil", "Bi">>
  /\ ~Has(data, "maintenanceFeeText")
  /\ Has(data, "specialNotes") /\ Contains(data["specialNotes"], <<"2", ".", " ", "Sil", "Bi">>)

\* a map without the fields that _build_update_summary does not look at
C28_Restrict(d) ==
  [k \in DOMAIN d \cap (C13_Tracked \cup {"dealCompletedAt"}) |-> d[k]]
\* every tracked field, status and notes of new_data has the value of old_data
C28_TrackedEqual ==
  \A k \in DOMAIN new_data \cap C13_Tracked : Has(old_data, k) /\ old_data[k] = new_data[k]
\* C28: the summary has no fragment for a field outside the tracked list: it
\* is that of the two maps without such fields, and it is exactly '내용수정'
\* when every tracked field, status and notes of new_data equals that of
\* old_data, whatever the other fields are; it is never the empty string.
C28_UntrackedSilent ==
  pc = "summarized"
    => /\ summary # <<>>
       /\ summary = _build_update_summary(C28_Restrict(old_data), C28_Restrict(new_data))
       /\ C28_TrackedEqual => summary = <<"Nae", "Yong", "Su", "Jeong">>
\* the two maps differ in keyMoneyMemo only, and the summary is the fallback
C28_MemoChanged ==
  /\ pc = "summarized"
  /\ Has(old_data, "keyMoneyMemo") /\ Has(new_data, "keyMoneyMemo")
  /\ old_data["keyMoneyMemo"] # new_data["keyMoneyMemo"]
  /\ Has(old_data, "deposit") /\ Has(new_data, "deposit")
  /\ old_data["deposit"] = new_data["deposit"]
  /\ summary = <<"Nae", "Yong", "Su", "Jeong">>

\* the save tasks of a chat that are in their sleep
C29_Sleeping(c) ==
  {t \in Listings : tasks[t].chat_id = c /\ tasks[t].state = "sleeping"}
\* the descriptions passed to _save_property_to_notion
C29_Saved == {saved[i].description : i \in DOMAIN saved}
\* C29: a chat has at most one save task in its sleep, the one registered for
\* it; _schedule_property_save cancels the sleeping task of the chat before it
\* registers the new one; a description whose task was cancelled is never
\* passed to _save_property_to_notion.
C29_OnePendingSave ==
  /\ [](\A c \in Chats : /\ Cardinality(C29_Sleeping(c)) <= 1
                         /\ C29_Sleeping(c) \subseteq {_save_tasks[c]})
  /\ [](\A t \in Listings : tasks[t].state = "cancelled" => t \notin C29_Saved)
  /\ [][\A c \in Chats :
          (/\ Len(tasks') > Len(tasks)
           /\ tasks'[Len(tasks')].kind = "save" /\ tasks'[Len(tasks')].chat_id = c
           /\ C29_Sleeping(c) # {})
            => /\ \A t \in C29_Sleeping(c) : tasks'[t].state = "cancelled"
               /\ _save_tasks'[c] = Len(tasks')]_vars
\* two descriptions came in one chat, the second during the sleep of the
\* first; the second one was saved
C29_LaterOneSaved ==
  \E t1, t2 \in Listings :
    /\ t1 < t2 /\ tasks[t1].chat_id = tasks[t2].chat_id
    /\ tasks[t1].state = "cancelled"
    /\ C29_Saved = {t2}

\* the photo URLs of a call of _save_property_to_notion
C30_Photos(i) == {saved[i].photo_urls[n] : n \in DOMAIN saved[i].photo_urls}
====
